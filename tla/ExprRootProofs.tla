--------------------------- MODULE ExprRootProofs ---------------------------
(***************************************************************************)
(* What an expression is rooted in, in a table without ternaries and with  *)
(* one kind of paren, as the default one is: the size its root counts      *)
(* covers all of it, so that NODE_LIMIT bounds what a parse hands back,    *)
(* and the first rule of the outermost chain holds the result.             *)
(*                                                                         *)
(* An expression is free while no node of another one holds a node of it.  *)
(* Only a free one may grow, for no other counts it; a paren, or an        *)
(* expression that takes a paren as its operand, counts what it takes as   *)
(* it is then, and what it takes is never met again by the rules.          *)
(***************************************************************************)
EXTENDS ExprChainProofs

\* A table with one kind of paren.
OneParen == \A n, m \in DOMAIN Paren : n = m

(***************************************************************************)
(* What the rules of the chain hold.  The expressions that await an        *)
(* operand below position j of it are never those that what is above       *)
(* belongs to, save the one handed down to the operand's val, its seed.    *)
(***************************************************************************)
Roots(a, rs, ch, j) == {Root(a, rs[ch[i]].node) : i \in {k \in 1..(j - 1) : Awaits(rs, ch[k])}}

\* An expression of its own, by its root; one that no other holds a node of.
Own(a, Fs, v)  == v.k = "node" => Root(a, v) = v.id /\ v.id \notin Fs
Sole(a, Fs, v) == Own(a, Fs, v) /\ (v.k = "node" => Free(a, v.id))

\* An operand that is an expression of its own is a paren.
Foreign(a, v) == v.k = "node" => a.nodes[v.id].op.kind \in Brackets

Seed(rs, ch, j) == Above(rs, ch, j, "expr") /\ rs[ch[j]].node = rs[ch[j - 1]].node

\* The rule that read the first term of what the rule at position j is part of.
First(rs, ch, j) == IF j = 1 THEN 1 ELSE rs[ch[j - 1]].child

\* That rule holds the expression by its root, and so does the place where an
\* operator looks for it.
Tied(a, rs, ch, j, f) ==
  LET u == Linked(rs, rs[ch[j]].parent)
  IN  rs[First(rs, ch, j)].node = Handle(f) /\ (u.k = "node" => Root(a, u) = f)

\* The expression of an expr: the one the val below it holds, or one that the
\* rule of its first term holds by its root.
ExprOwn(a, rs, ch, j, v) ==
  /\ v.k = "node" /\ Free(a, Root(a, v))
  /\ Above(rs, ch, j, "val") => /\ Root(a, v) = Root(a, rs[ch[j - 1]].node)
                                /\ Above(rs, ch, j - 1, "expr") => Seed(rs, ch, j - 1)
  /\ ~Above(rs, ch, j, "val") => Root(a, v) \notin Roots(a, rs, ch, j) /\ Tied(a, rs, ch, j, Root(a, v))

\* A rule that waits.
FamAt(a, rs, ch, j) ==
  LET R == rs[ch[j]]
  IN  /\ R.name = "val" => Seed(rs, ch, j) \/ Own(a, Roots(a, rs, ch, j), R.node)
      /\ Awaits(rs, ch[j]) => ExprOwn(a, rs, ch, j, R.node)
      /\ R.name = "paren" => R.depth # {}

FamFrames(a, rs, ch) ==
  /\ rs[1].name = "val"
  /\ rs[ch[1]].name # "expr" => ch[1] = 1
  /\ \A j \in 1..(Len(ch) - 1) : FamAt(a, rs, ch, j)

\* The rule on top, a val.
FamVal(a, rs, ch, j) ==
  LET V == rs[ch[j]]
  IN  /\ \/ Seed(rs, ch, j)
         \/ /\ Sole(a, Roots(a, rs, ch, j), V.node)
            /\ Above(rs, ch, j, "expr") => V.state = "close" /\ Foreign(a, V.node)
      /\ V.state = "close" /\ V.child # 0 => V.node.k = "node"

\* An expr yet to meet its operator, t.
FamOpen(a, rs, ch, j, t) ==
  LET E == rs[ch[j]]
      w == rs[ch[j - 1]].node
      v == Linked(rs, E.prev)
  IN  /\ Above(rs, ch, j, "val") /\ t \in DOMAIN Prefix =>
           /\ Above(rs, ch, j - 1, "expr") => Seed(rs, ch, j - 1)
           /\ w.k = "node" => Free(a, Root(a, w))
      /\ ~Above(rs, ch, j, "val") =>
           /\ v.k = "node" => ExprOwn(a, rs, ch, j, v)
           /\ v.k # "node" => E.prev = First(rs, ch, j) /\ Linked(rs, E.parent).k # "node"
           /\ j > 1 => E.prev > ch[j - 1]

\* An expr that looks for its operator's place.
FamCall(a, rs, ch, j, call) ==
  ExprOwn(a, rs, ch, j, call.root) /\ Root(a, call.expr) = Root(a, call.root)

\* An expr that has all its operands.
FamClose(a, rs, ch, j) ==
  LET E == rs[ch[j]]
      w == rs[E.child].node
  IN  /\ E.child = 0 \/ Awaits(rs, ch[j]) => ExprOwn(a, rs, ch, j, E.node)
      /\ Awaits(rs, ch[j]) /\ w # E.node =>
           Sole(a, Roots(a, rs, ch, j) \cup {Root(a, E.node)}, w) /\ Foreign(a, w)
      /\ E.child # 0 /\ ~Awaits(rs, ch[j]) =>
           E.node.k = "node" /\ Foreign(a, E.node) /\ Sole(a, Roots(a, rs, ch, j), E.node)

FamParen(a, rs, ch, j) ==
  LET P == rs[ch[j]]
  IN P.state = "close" => /\ P.depth # {}
                          /\ P.child # 0 => Sole(a, Roots(a, rs, ch, j), rs[P.child].node)

FamTop(a, rs, ch, t, call) ==
  LET j == Len(ch)
      R == rs[ch[j]]
  IN  /\ R.name = "val" => FamVal(a, rs, ch, j)
      /\ R.name = "expr" /\ R.state = "open" /\ call = NoCall => FamOpen(a, rs, ch, j, t)
      /\ R.name = "expr" /\ R.state = "open" /\ call # NoCall => FamCall(a, rs, ch, j, call)
      /\ R.name = "expr" /\ R.state = "close" => FamClose(a, rs, ch, j)
      /\ R.name = "paren" => FamParen(a, rs, ch, j)

FamInv ==
  /\ Kindred(arena) /\ Covered(arena) /\ SameResult
  /\ status = "run" => FamFrames(arena, rules, Chain) /\ FamTop(arena, rules, Chain, t0, pratt)

(***************************************************************************)
(* What a pass keeps of the chain up to position p.                        *)
(***************************************************************************)
\* Rules hold nodes of the arena.
Lives(a, rs) ==
  /\ 1 \in DOMAIN rs
  /\ \A r \in DOMAIN rs : /\ rs[r].node.k = "node" => rs[r].node.id \in DOMAIN a.nodes
                          /\ rs[r].attach.k = "node" => rs[r].attach.id \in DOMAIN a.nodes

KeepsTo(a, b, rs, qs, ch, dh, p) ==
  /\ p \in Nat /\ p < Len(ch)
  /\ \A i \in 1..p : dh[i] = ch[i]
  /\ \A r \in DOMAIN rs : r \in DOMAIN qs /\ qs[r].name = rs[r].name
  /\ p > 0 => \A r \in DOMAIN rs : r <= ch[p] => qs[r] = rs[r]
  /\ \A i \in DOMAIN a.nodes : b.nodes[i].root = a.nodes[i].root
  /\ \A i \in 1..p : Awaits(rs, ch[i]) /\ Free(a, Root(a, rs[ch[i]].node))
                       => Free(b, Root(a, rs[ch[i]].node))

LEMMA KeptBelow ==
  ASSUME NEW a, NEW b, NEW rs, NEW qs, NEW ch, NEW dh, NEW p, Sorted(rs, ch), Lives(a, rs),
         Frames(a, rs, ch), KeepsTo(a, b, rs, qs, ch, dh, p)
  PROVE  \A i \in 1..p :
           /\ ch[i] \in DOMAIN rs /\ ch[i] <= ch[p] /\ dh[i] = ch[i] /\ qs[ch[i]] = rs[ch[i]]
           /\ Awaits(qs, dh[i]) <=> Awaits(rs, ch[i])
           /\ rs[ch[i]].node.k = "node" => Root(b, rs[ch[i]].node) = Root(a, rs[ch[i]].node)
           /\ Awaits(rs, ch[i]) => rs[ch[i]].node.k = "node"
<1> SUFFICES ASSUME NEW i \in 1..p
             PROVE  /\ ch[i] \in DOMAIN rs /\ ch[i] <= ch[p] /\ dh[i] = ch[i] /\ qs[ch[i]] = rs[ch[i]]
                    /\ Awaits(qs, dh[i]) <=> Awaits(rs, ch[i])
                    /\ rs[ch[i]].node.k = "node" => Root(b, rs[ch[i]].node) = Root(a, rs[ch[i]].node)
                    /\ Awaits(rs, ch[i]) => rs[ch[i]].node.k = "node"
  OBVIOUS
<1>1. p \in Nat /\ p < Len(ch) /\ Len(ch) \in Nat /\ DOMAIN rs \subseteq Nat \ {0}
  BY DEF KeepsTo, Sorted
<1>2. i \in 1..Len(ch) /\ p \in 1..Len(ch) /\ p > 0 /\ i \in 1..(Len(ch) - 1) /\ (i < p \/ i = p)
  BY <1>1
<1>3. ch[i] \in DOMAIN rs /\ ch[p] \in DOMAIN rs /\ (i < p => ch[i] < ch[p])
  BY <1>2 DEF Sorted, Frames
<1>4. ch[i] <= ch[p]
  BY <1>1, <1>2, <1>3
<1>5. dh[i] = ch[i] /\ qs[ch[i]] = rs[ch[i]]
  BY <1>2, <1>3, <1>4 DEF KeepsTo
<1>6. rs[ch[i]].child \in DOMAIN rs \cup {0} /\ rs[ch[i]].parent \in DOMAIN rs \cup {0}
  BY <1>3 DEF Sorted
<1>7. \A r \in DOMAIN rs : qs[r].name = rs[r].name
  BY DEF KeepsTo
<1>8. Awaits(qs, dh[i]) <=> Awaits(rs, ch[i])
  BY <1>5, <1>6, <1>7 DEF Awaits
<1>9. rs[ch[i]].node.k = "node" => Root(b, rs[ch[i]].node) = Root(a, rs[ch[i]].node)
  BY <1>3 DEF Lives, KeepsTo, Root
<1>10. Waits(a, rs, ch, i)
  BY <1>2 DEF Frames
<1>11. Awaits(rs, ch[i]) => rs[ch[i]].node.k = "node"
  BY <1>10 DEF Waits, Awaits, ExprHolds, Firm, Live
<1>12. QED
  BY <1>3, <1>4, <1>5, <1>8, <1>9, <1>11

LEMMA KeptRoots ==
  ASSUME NEW a, NEW b, NEW rs, NEW qs, NEW ch, NEW dh, NEW p, Sorted(rs, ch), Lives(a, rs),
         Frames(a, rs, ch), KeepsTo(a, b, rs, qs, ch, dh, p), NEW j \in 1..(p + 1)
  PROVE  /\ Roots(b, qs, dh, j) = Roots(a, rs, ch, j)
         /\ \A name : Above(qs, dh, j, name) <=> Above(rs, ch, j, name)
<1>1. p \in Nat
  BY DEF KeepsTo
<1>2. \A k \in 1..(j - 1) : k \in 1..p
  BY <1>1
<1>3. \A k \in 1..(j - 1) : /\ Awaits(qs, dh[k]) <=> Awaits(rs, ch[k])
                            /\ Awaits(rs, ch[k]) => Root(b, qs[dh[k]].node) = Root(a, rs[ch[k]].node)
  BY <1>2, KeptBelow
<1>4. Roots(b, qs, dh, j) = Roots(a, rs, ch, j)
  <2> DEFINE A == {k \in 1..(j - 1) : Awaits(rs, ch[k])}
  <2>1. A = {k \in 1..(j - 1) : Awaits(qs, dh[k])}
    BY <1>3
  <2>2. \A k \in A : Root(b, qs[dh[k]].node) = Root(a, rs[ch[k]].node)
    BY <1>3
  <2>3. Roots(b, qs, dh, j) = {Root(b, qs[dh[k]].node) : k \in A}
    BY <2>1 DEF Roots
  <2>4. QED
    BY <2>2, <2>3 DEF Roots
<1>5. j > 1 => j - 1 \in 1..p
  BY <1>1
<1>6. QED
  BY <1>4, <1>5, KeptBelow DEF Above

\* A waiting rule that is kept, with all that was made before it, holds what it held.
LEMMA KeptFam ==
  ASSUME NEW a, NEW b, NEW rs, NEW qs, NEW ch, NEW dh, NEW p, Sorted(rs, ch), Lives(a, rs),
         Frames(a, rs, ch), KeepsTo(a, b, rs, qs, ch, dh, p), NEW j \in 1..p, FamAt(a, rs, ch, j)
  PROVE  FamAt(b, qs, dh, j)
<1>1. /\ p \in Nat /\ p < Len(ch) /\ Len(ch) \in Nat /\ DOMAIN rs \subseteq Nat \ {0}
      /\ \A r \in DOMAIN rs : r <= ch[p] => qs[r] = rs[r]
      /\ \A i \in DOMAIN a.nodes : b.nodes[i].root = a.nodes[i].root
  <2>1. p > 0 /\ p \in Nat
    BY DEF KeepsTo
  <2>2. QED
    BY <2>1 DEF KeepsTo, Sorted
<1>2. j \in 1..(p + 1) /\ j \in 1..(Len(ch) - 1) /\ (j > 1 => j - 1 \in 1..p /\ j - 1 \in 1..(p + 1)
                                                         /\ j - 1 \in 1..(Len(ch) - 1)
                                                         /\ (j - 1) + 1 = j)
  BY <1>1
<1>3. /\ ch[j] \in DOMAIN rs /\ ch[j] <= ch[p] /\ dh[j] = ch[j] /\ qs[ch[j]] = rs[ch[j]]
      /\ Awaits(qs, dh[j]) <=> Awaits(rs, ch[j])
      /\ rs[ch[j]].node.k = "node" => Root(b, rs[ch[j]].node) = Root(a, rs[ch[j]].node)
  BY KeptBelow
<1>4. j > 1 => /\ ch[j - 1] \in DOMAIN rs /\ dh[j - 1] = ch[j - 1] /\ qs[ch[j - 1]] = rs[ch[j - 1]]
               /\ rs[ch[j - 1]].node.k = "node" => Root(b, rs[ch[j - 1]].node) = Root(a, rs[ch[j - 1]].node)
  BY <1>2, KeptBelow
<1>5. /\ Roots(b, qs, dh, j) = Roots(a, rs, ch, j)
      /\ \A name : Above(qs, dh, j, name) <=> Above(rs, ch, j, name)
  BY <1>2, KeptRoots
<1>6. \A name : Above(qs, dh, j - 1, name) <=> Above(rs, ch, j - 1, name)
  <2>1. CASE j > 1
    BY <1>2, <2>1, KeptRoots
  <2>2. CASE ~(j > 1)
    <3>1. ~(j - 1 > 1)
      BY <1>2, <2>2
    <3>2. QED
      BY <3>1 DEF Above
  <2>3. QED
    BY <2>1, <2>2
<1>7. Seed(qs, dh, j) <=> Seed(rs, ch, j)
  BY <1>3, <1>4, <1>5 DEF Seed, Above
<1>8. Seed(qs, dh, j - 1) <=> Seed(rs, ch, j - 1)
  <2>1. CASE j - 1 > 1
    <3>1. (j - 1) - 1 \in 1..p /\ j > 1
      BY <1>1, <1>2, <2>1
    <3>2. dh[(j - 1) - 1] = ch[(j - 1) - 1] /\ qs[ch[(j - 1) - 1]] = rs[ch[(j - 1) - 1]]
      BY <3>1, KeptBelow
    <3>3. QED
      BY <1>4, <1>6, <3>1, <3>2 DEF Seed
  <2>2. CASE ~(j - 1 > 1)
    BY <2>2 DEF Seed, Above
  <2>3. QED
    BY <2>1, <2>2
<1>9. ASSUME rs[ch[j]].name = "val" PROVE Seed(qs, dh, j) \/ Own(b, Roots(b, qs, dh, j), rs[ch[j]].node)
  <2>1. Seed(rs, ch, j) \/ Own(a, Roots(a, rs, ch, j), rs[ch[j]].node)
    BY <1>9 DEF FamAt
  <2>2. QED
    BY <1>3, <1>5, <1>7, <2>1 DEF Own
<1>10. ASSUME Awaits(rs, ch[j]) PROVE ExprOwn(b, qs, dh, j, rs[ch[j]].node)
  <2> DEFINE v == rs[ch[j]].node
             u == Linked(rs, rs[ch[j]].parent)
  <2>1. ExprOwn(a, rs, ch, j, v)
    BY <1>10 DEF FamAt
  <2>2. v.k = "node" /\ Free(b, Root(b, v)) /\ Root(b, v) = Root(a, v)
    <3>1. v.k = "node" /\ Free(a, Root(a, v))
      BY <2>1 DEF ExprOwn
    <3>2. Free(b, Root(a, v))
      BY <1>10, <3>1 DEF KeepsTo
    <3>3. QED
      BY <1>3, <3>1, <3>2
  <2>3. ASSUME Above(rs, ch, j, "val")
        PROVE  /\ Root(b, v) = Root(b, qs[dh[j - 1]].node)
               /\ Above(qs, dh, j - 1, "expr") => Seed(qs, dh, j - 1)
    <3>1. j > 1 /\ Root(a, v) = Root(a, rs[ch[j - 1]].node)
      BY <2>1, <2>3 DEF ExprOwn, Above
    <3>2. rs[ch[j - 1]].node.k = "node"
      <4>1. Waits(a, rs, ch, j)
        BY <1>2 DEF Frames
      <4>2. ExprHolds(a, rs, ch, j)
        BY <1>10, <4>1 DEF Waits, Awaits
      <4>3. QED
        BY <2>3, <4>2 DEF ExprHolds, Apart
    <3>3. Above(rs, ch, j - 1, "expr") => Seed(rs, ch, j - 1)
      BY <2>1, <2>3 DEF ExprOwn
    <3>4. QED
      BY <1>4, <1>6, <1>8, <2>2, <3>1, <3>2, <3>3
  <2>4. ASSUME ~Above(rs, ch, j, "val")
        PROVE  Root(b, v) \notin Roots(b, qs, dh, j) /\ Tied(b, qs, dh, j, Root(b, v))
    <3>1. Root(a, v) \notin Roots(a, rs, ch, j) /\ Tied(a, rs, ch, j, Root(a, v))
      BY <2>1, <2>4 DEF ExprOwn
    <3>2. First(rs, ch, j) \in DOMAIN rs /\ First(rs, ch, j) <= ch[p] /\ First(qs, dh, j) = First(rs, ch, j)
      <4>1. CASE j = 1
        <5>1. 1 \in DOMAIN rs /\ First(rs, ch, j) = 1 /\ First(qs, dh, j) = 1
          BY <4>1 DEF Lives, First
        <5>2. ch[j] \in Nat \ {0} /\ ch[p] \in Nat
          BY <1>1, <1>3, KeptBelow
        <5>3. QED
          BY <1>3, <5>1, <5>2
      <4>2. CASE j # 1
        <5>1. j > 1
          BY <4>2
        <5>2. First(rs, ch, j) = rs[ch[j - 1]].child /\ First(qs, dh, j) = First(rs, ch, j)
          BY <1>4, <4>2, <5>1 DEF First
        <5>3. Waits(a, rs, ch, j - 1) /\ Pushed(a, rs, ch, j - 1)
          BY <1>2, <5>1 DEF Frames
        <5>4. rs[ch[j - 1]].child = ch[j] \/ rs[ch[j - 1]].child < ch[j]
          BY <1>2, <5>1, <5>3 DEF Waits, Pushed, Awaits
        <5>5. rs[ch[j - 1]].child # 0 /\ rs[ch[j - 1]].child \in DOMAIN rs \cup {0}
          <6>1. rs[ch[j - 1]].child \in DOMAIN rs \cup {0}
            BY <1>4, <5>1 DEF Sorted
          <6>2. ch[j] # 0
            BY <1>1, <1>3
          <6>3. QED
            BY <1>2, <5>1, <5>3, <6>1, <6>2 DEF Waits, Pushed, Awaits, Inside
        <5>6. rs[ch[j - 1]].child \in Nat /\ ch[j] \in Nat /\ ch[p] \in Nat
          BY <1>1, <1>3, <5>5, KeptBelow
        <5>7. rs[ch[j - 1]].child <= ch[p]
          BY <1>3, <5>4, <5>6
        <5>8. QED
          BY <5>2, <5>5, <5>7
      <4>3. QED
        BY <4>1, <4>2
    <3>3. qs[First(qs, dh, j)] = rs[First(rs, ch, j)]
      BY <1>1, <3>2
    <3>4. rs[ch[j]].parent \in DOMAIN rs \cup {0} /\ rs[ch[j]].parent < ch[j]
      <4>1. Waits(a, rs, ch, j)
        BY <1>2 DEF Frames
      <4>2. ExprHolds(a, rs, ch, j)
        BY <1>10, <4>1 DEF Waits, Awaits
      <4>3. Apart(a, rs, ch, j)
        BY <2>4, <4>2 DEF ExprHolds
      <4>4. QED
        BY <1>3, <4>3 DEF Apart, Sorted
    <3>5. Linked(qs, qs[dh[j]].parent) = u /\ (u.k = "node" => Root(b, u) = Root(a, u))
      <4>1. CASE rs[ch[j]].parent = 0
        BY <1>3, <4>1 DEF Linked, Undefined
      <4>2. CASE rs[ch[j]].parent # 0
        <5>1. rs[ch[j]].parent \in DOMAIN rs /\ rs[ch[j]].parent <= ch[p]
          <6>1. rs[ch[j]].parent \in Nat /\ ch[j] \in Nat /\ ch[p] \in Nat
            BY <1>1, <1>3, <3>4, KeptBelow
          <6>2. QED
            BY <1>3, <3>4, <4>2, <6>1
        <5>2. qs[rs[ch[j]].parent] = rs[rs[ch[j]].parent]
          BY <1>1, <5>1
        <5>3. u.k = "node" => u.id \in DOMAIN a.nodes
          BY <4>2, <5>1 DEF Lives, Linked
        <5>4. QED
          BY <1>1, <1>3, <5>2, <5>3 DEF Linked, Root
      <4>3. QED
        BY <4>1, <4>2
    <3>6. QED
      BY <1>5, <2>2, <3>1, <3>3, <3>5 DEF Tied
  <2>5. QED
    BY <1>5, <2>2, <2>3, <2>4 DEF ExprOwn
<1>11. rs[ch[j]].name = "paren" => rs[ch[j]].depth # {}
  BY DEF FamAt
<1>12. QED
  BY <1>3, <1>9, <1>10, <1>11 DEF FamAt

(***************************************************************************)
(* A running parse.                                                        *)
(***************************************************************************)
FamRunning == Running /\ OneParen /\ SuffixesBelowMax /\ FamInv

\* The expressions that await an operand.
Awaited == Roots(arena, rules, Chain, Height)

\* An arena that has grown, and has taken none of them.
Spares(b) == /\ Extends(arena, b) /\ Covered(b) /\ Kindred(b)
             /\ \A f \in Awaited : Free(arena, f) => Free(b, f)

LEMMA FamIs ==
  ASSUME FamRunning
  PROVE  /\ Lives(arena, rules) /\ Sorted(rules, Chain) /\ Frames(arena, rules, Chain)
         /\ Sound(arena) /\ Closed(arena) /\ Kindred(arena) /\ Covered(arena)
         /\ FamFrames(arena, rules, Chain) /\ FamTop(arena, rules, Chain, t0, pratt)
         /\ Len(Chain) = Height /\ Height \in Nat \ {0} /\ Chain[Height] = cur
         /\ DOMAIN rules \subseteq Nat \ {0} /\ cur \in DOMAIN rules /\ cur \in Nat
         /\ \A f \in Awaited : f \in DOMAIN arena.nodes /\ Free(arena, f)
         /\ \A j \in 1..(Height - 1) : FamAt(arena, rules, Chain, j)
<1>1. Running /\ FamInv
  BY DEF FamRunning
<1>2. /\ Len(Chain) = Height /\ Height \in Nat \ {0} /\ Chain[Height] = cur
      /\ Sorted(rules, Chain) /\ Frames(arena, rules, Chain)
      /\ Len(rules) \in Nat /\ DOMAIN rules = 1..Len(rules) /\ cur \in DOMAIN rules
      /\ \A r \in DOMAIN rules : rules[r] \in Rules(Value, Len(rules))
  BY <1>1, ChainIs
<1>3. Sound(arena) /\ Closed(arena)
  BY <1>1, ArenaClosed DEF Running
<1>4. Lives(arena, rules)
  <2>1. \A r \in DOMAIN rules : {rules[r].node, rules[r].attach} \subseteq Value
    BY <1>2, Fields
  <2>2. 1 \in DOMAIN rules
    BY <1>2
  <2>3. \A v \in Value : v.k = "node" => v.id \in DOMAIN arena.nodes
    BY DEF Value, Values
  <2>4. QED
    BY <2>1, <2>2, <2>3 DEF Lives
<1>5. /\ Kindred(arena) /\ Covered(arena)
      /\ FamFrames(arena, rules, Chain) /\ FamTop(arena, rules, Chain, t0, pratt)
  BY <1>1 DEF FamInv, Running
<1>6. \A j \in 1..(Height - 1) : FamAt(arena, rules, Chain, j)
  BY <1>2, <1>5 DEF FamFrames
<1>7. ASSUME NEW f \in Awaited PROVE f \in DOMAIN arena.nodes /\ Free(arena, f)
  <2>1. PICK i \in 1..(Height - 1) : Awaits(rules, Chain[i]) /\ f = Root(arena, rules[Chain[i]].node)
    BY DEF Awaited, Roots
  <2>2. FamAt(arena, rules, Chain, i)
    BY <1>6
  <2>3. rules[Chain[i]].node.k = "node" /\ Free(arena, f)
    BY <2>1, <2>2 DEF FamAt, ExprOwn
  <2>4. Chain[i] \in DOMAIN rules
    BY <1>2 DEF Sorted
  <2>5. rules[Chain[i]].node.id \in DOMAIN arena.nodes
    BY <1>4, <2>3, <2>4 DEF Lives
  <2>6. f \in DOMAIN arena.nodes
    BY <1>3, <2>1, <2>5, Sizes DEF Root
  <2>7. QED
    BY <2>3, <2>6
<1>8. DOMAIN rules \subseteq Nat \ {0} /\ cur \in Nat
  BY <1>2
<1>9. QED
  BY <1>2, <1>3, <1>4, <1>5, <1>6, <1>7, <1>8

LEMMA SparesIs ==
  ASSUME FamRunning, NEW b, NEW taken, Extends(arena, b), Grown(arena, b, taken),
         \A f \in taken : f \notin Awaited
  PROVE  Spares(b)
<1>1. \A f \in Awaited : f \in DOMAIN arena.nodes \ taken
  BY FamIs
<1>2. QED
  BY <1>1 DEF Grown, Spares

LEMMA GrownSame ==
  ASSUME FamRunning
  PROVE  Grown(arena, arena, {}) /\ Extends(arena, arena) /\ Spares(arena)
<1>1. Covered(arena) /\ Kindred(arena) /\ Sound(arena)
  BY FamIs
<1>2. Grown(arena, arena, {})
  BY <1>1 DEF Grown
<1>3. Extends(arena, arena)
  BY <1>1, ExtendsSelf
<1>4. QED
  BY <1>2, <1>3, SparesIs

LEMMA RootsNext ==
  ASSUME NEW a, NEW rs, NEW ch, NEW j \in Nat \ {0}
  PROVE  Roots(a, rs, ch, j + 1) =
           Roots(a, rs, ch, j) \cup (IF Awaits(rs, ch[j]) THEN {Root(a, rs[ch[j]].node)} ELSE {})
<1> DEFINE was == {k \in 1..(j - 1) : Awaits(rs, ch[k])}
           now == {k \in 1..((j + 1) - 1) : Awaits(rs, ch[k])}
<1>1. now = was \cup (IF Awaits(rs, ch[j]) THEN {j} ELSE {})
  OBVIOUS
<1>2. Roots(a, rs, ch, j + 1) = {Root(a, rs[ch[i]].node) : i \in now}
      /\ Roots(a, rs, ch, j) = {Root(a, rs[ch[i]].node) : i \in was}
  BY DEF Roots
<1> HIDE DEF was, now
<1>3. QED
  BY <1>1, <1>2

\* The chain up to position p, as a pass leaves it.
StaysTo(b, qs, dh, p) ==
  /\ \A j \in 1..p : FamAt(b, qs, dh, j)
  /\ \A j \in 1..(p + 1) : /\ Roots(b, qs, dh, j) = Roots(arena, rules, Chain, j)
                           /\ \A nm : Above(qs, dh, j, nm) <=> Above(rules, Chain, j, nm)
  /\ \A j \in 1..p : qs[Chain[j]] = rules[Chain[j]] /\ dh[j] = Chain[j]
  /\ p > 0 => (qs[dh[1]].name # "expr" => dh[1] = 1)

LEMMA PassKeeps ==
  ASSUME FamRunning, NEW b, Spares(b), NEW qs, NEW dh, NEW p \in 0..(Height - 1),
         \A i \in 1..p : dh[i] = Chain[i],
         \A r \in DOMAIN rules : r \in DOMAIN qs /\ qs[r].name = rules[r].name,
         p > 0 => \A r \in DOMAIN rules : r <= Chain[p] => qs[r] = rules[r]
  PROVE  StaysTo(b, qs, dh, p)
<1>1. /\ Lives(arena, rules) /\ Sorted(rules, Chain) /\ Frames(arena, rules, Chain)
      /\ Len(Chain) = Height /\ Height \in Nat \ {0}
      /\ FamFrames(arena, rules, Chain)
      /\ \A j \in 1..(Height - 1) : FamAt(arena, rules, Chain, j)
      /\ \A f \in Awaited : f \in DOMAIN arena.nodes /\ Free(arena, f)
  BY FamIs
<1>2. p \in Nat /\ p < Len(Chain) /\ \A j \in 1..p : j \in 1..(Height - 1)
  BY <1>1
<1>3. \A i \in DOMAIN arena.nodes : b.nodes[i].root = arena.nodes[i].root
  BY DEF Spares, Extends
<1>4. ASSUME NEW i \in 1..p, Awaits(rules, Chain[i])
      PROVE  Free(b, Root(arena, rules[Chain[i]].node))
  <2>1. Root(arena, rules[Chain[i]].node) \in Awaited
    BY <1>2, <1>4 DEF Awaited, Roots
  <2>2. QED
    BY <1>1, <2>1 DEF Spares
<1>5. KeepsTo(arena, b, rules, qs, Chain, dh, p)
  BY <1>2, <1>3, <1>4 DEF KeepsTo
<1>6. \A j \in 1..p : FamAt(b, qs, dh, j)
  BY <1>1, <1>2, <1>5, KeptFam
<1>7. \A j \in 1..(p + 1) : /\ Roots(b, qs, dh, j) = Roots(arena, rules, Chain, j)
                            /\ \A nm : Above(qs, dh, j, nm) <=> Above(rules, Chain, j, nm)
  BY <1>1, <1>5, KeptRoots
<1>8. \A j \in 1..p : qs[Chain[j]] = rules[Chain[j]] /\ dh[j] = Chain[j]
  BY <1>1, <1>5, KeptBelow
<1>9. p > 0 => 1 \in 1..p
  BY <1>2
<1>10. p > 0 => (qs[dh[1]].name # "expr" => dh[1] = 1)
  BY <1>1, <1>8, <1>9 DEF FamFrames
<1>11. QED
  BY <1>6, <1>7, <1>8, <1>10 DEF StaysTo

\* The rules below the top one, as they were.
Others(qs) ==
  /\ \A r \in DOMAIN rules : r \in DOMAIN qs /\ qs[r].name = rules[r].name
  /\ Height > 1 => \A r \in DOMAIN rules : r <= Below => qs[r] = rules[r]

\* The chain below the top one.
FamBelow(b, qs, dh) ==
  /\ \A j \in 1..(Height - 1) : FamAt(b, qs, dh, j)
  /\ Roots(b, qs, dh, Height) = Awaited
  /\ \A nm : Above(qs, dh, Height, nm) <=> Under(nm)
  /\ \A nm : Above(qs, dh, Height - 1, nm) <=> Above(rules, Chain, Height - 1, nm)
  /\ Seed(qs, dh, Height - 1) <=> Seed(rules, Chain, Height - 1)
  /\ Height > 1 => /\ qs[Below] = rules[Below] /\ dh[Height - 1] = Below
                   /\ Roots(b, qs, dh, Height - 1) = Roots(arena, rules, Chain, Height - 1)
                   /\ qs[dh[1]].name # "expr" => dh[1] = 1

LEMMA TopFam ==
  ASSUME FamRunning, NEW b, Spares(b), NEW qs, NEW dh, Others(qs),
         \A i \in 1..(Height - 1) : dh[i] = Chain[i]
  PROVE  FamBelow(b, qs, dh)
<1>1. Height \in Nat \ {0}
  BY FamIs
<1>2. /\ Height - 1 \in 0..(Height - 1) /\ (Height - 1) + 1 = Height
      /\ Height > 1 => /\ Height - 1 \in 1..(Height - 1) /\ Height - 1 \in 1..((Height - 1) + 1)
                       /\ Height - 1 > 0
      /\ Height > 2 => (Height - 1) - 1 \in 1..(Height - 1)
      /\ Height - 1 > 1 <=> Height > 2
      /\ Height - 1 > 0 => Height > 1
      /\ Height \in 1..((Height - 1) + 1)
  BY <1>1
<1> DEFINE p == Height - 1
<1>3. p > 0 => \A r \in DOMAIN rules : r <= Chain[p] => qs[r] = rules[r]
  BY <1>2 DEF Others, Below
<1>4. \A r \in DOMAIN rules : r \in DOMAIN qs /\ qs[r].name = rules[r].name
  BY DEF Others
<1>5. p \in 0..(Height - 1) /\ \A i \in 1..p : dh[i] = Chain[i]
  BY <1>2
<1> HIDE DEF p
<1>100. StaysTo(b, qs, dh, p)
  BY <1>3, <1>4, <1>5, PassKeeps
<1>6. /\ \A j \in 1..p : FamAt(b, qs, dh, j)
      /\ \A j \in 1..(p + 1) : /\ Roots(b, qs, dh, j) = Roots(arena, rules, Chain, j)
                               /\ \A nm : Above(qs, dh, j, nm) <=> Above(rules, Chain, j, nm)
      /\ \A j \in 1..p : qs[Chain[j]] = rules[Chain[j]] /\ dh[j] = Chain[j]
      /\ p > 0 => (qs[dh[1]].name # "expr" => dh[1] = 1)
  BY <1>100 DEF StaysTo
<1>7. /\ Roots(b, qs, dh, Height) = Awaited
      /\ \A nm : Above(qs, dh, Height, nm) <=> Under(nm)
  BY <1>2, <1>6 DEF p, Awaited, Under
<1>8. \A nm : Above(qs, dh, Height - 1, nm) <=> Above(rules, Chain, Height - 1, nm)
  <2>1. CASE Height > 1
    BY <1>2, <1>6, <2>1 DEF p
  <2>2. CASE ~(Height > 1)
    BY <1>2, <2>2 DEF Above
  <2>3. QED
    BY <2>1, <2>2
<1>9. Seed(qs, dh, Height - 1) <=> Seed(rules, Chain, Height - 1)
  <2>1. CASE Height > 2
    <3>1. /\ qs[Chain[p]] = rules[Chain[p]] /\ dh[p] = Chain[p]
          /\ qs[Chain[p - 1]] = rules[Chain[p - 1]] /\ dh[p - 1] = Chain[p - 1]
      BY <1>2, <1>6, <2>1 DEF p
    <3>2. QED
      BY <1>8, <3>1 DEF p, Seed
  <2>2. CASE ~(Height > 2)
    BY <1>2, <2>2 DEF Seed, Above
  <2>3. QED
    BY <2>1, <2>2
<1>10. ASSUME Height > 1
       PROVE  /\ qs[Below] = rules[Below] /\ dh[Height - 1] = Below
              /\ Roots(b, qs, dh, Height - 1) = Roots(arena, rules, Chain, Height - 1)
              /\ qs[dh[1]].name # "expr" => dh[1] = 1
  BY <1>2, <1>6, <1>10 DEF p, Below
<1>11. QED
  BY <1>6, <1>7, <1>8, <1>9, <1>10 DEF p, FamBelow

\* The rule on top stays where it is, or an expr takes its place.
LEMMA FramesStay ==
  ASSUME FamRunning, NEW b, Spares(b), NEW qs, NEW dh, Others(qs),
         \A i \in 1..(Height - 1) : dh[i] = Chain[i], Len(dh) = Height,
         dh[Height] = cur \/ qs[dh[Height]].name = "expr"
  PROVE  FamFrames(b, qs, dh)
<1>1. /\ Height \in Nat \ {0} /\ Chain[Height] = cur /\ cur \in DOMAIN rules
      /\ FamFrames(arena, rules, Chain)
  BY FamIs
<1> FamBelow(b, qs, dh)
  BY TopFam
<1> qs[1].name = "val"
  BY FamIs DEF Lives, Others, FamFrames
<1>2. /\ \A j \in 1..(Height - 1) : FamAt(b, qs, dh, j)
      /\ Height > 1 => (qs[dh[1]].name # "expr" => dh[1] = 1)
  BY DEF FamBelow
<1>3. ASSUME ~(Height > 1) PROVE qs[dh[1]].name # "expr" => dh[1] = 1
  <2>1. Height = 1
    BY <1>1, <1>3
  <2>2. qs[cur].name = rules[cur].name
    BY <1>1 DEF Others
  <2>3. QED
    BY <1>1, <2>1, <2>2 DEF FamFrames
<1>4. QED
  BY <1>2, <1>3 DEF FamFrames

\* A rule more.
LEMMA FramesPush ==
  ASSUME FamRunning, NEW b, Spares(b), NEW qs, NEW dh, Others(qs),
         \A i \in 1..(Height - 1) : dh[i] = Chain[i], Len(dh) = Height + 1, dh[Height] = cur,
         FamAt(b, qs, dh, Height)
  PROVE  FamFrames(b, qs, dh)
<1>1. /\ Height \in Nat \ {0} /\ Chain[Height] = cur /\ cur \in DOMAIN rules
      /\ FamFrames(arena, rules, Chain)
  BY FamIs
<1> FamBelow(b, qs, dh)
  BY TopFam
<1> qs[1].name = "val"
  BY FamIs DEF Lives, Others, FamFrames
<1>2. /\ \A j \in 1..(Height - 1) : FamAt(b, qs, dh, j)
      /\ Height > 1 => (qs[dh[1]].name # "expr" => dh[1] = 1)
  BY DEF FamBelow
<1>3. ASSUME ~(Height > 1) PROVE qs[dh[1]].name # "expr" => dh[1] = 1
  <2>1. Height = 1
    BY <1>1, <1>3
  <2>2. qs[cur].name = rules[cur].name
    BY <1>1 DEF Others
  <2>3. QED
    BY <1>1, <2>1, <2>2 DEF FamFrames
<1>4. \A j \in 1..((Height + 1) - 1) : j \in 1..(Height - 1) \/ j = Height
  BY <1>1
<1>5. QED
  BY <1>2, <1>3, <1>4 DEF FamFrames

\* A rule less.
LEMMA FramesPop ==
  ASSUME FamRunning, NEW b, Spares(b), NEW qs, NEW dh, Others(qs),
         \A i \in 1..(Height - 1) : dh[i] = Chain[i], Len(dh) = Height - 1, Height > 1
  PROVE  FamFrames(b, qs, dh) /\ FamAt(b, qs, dh, Height - 1)
<1>1. Height \in Nat \ {0}
  BY FamIs
<1> FamBelow(b, qs, dh)
  BY TopFam
<1> qs[1].name = "val"
  BY FamIs DEF Lives, Others, FamFrames
<1>2. /\ \A j \in 1..(Height - 1) : FamAt(b, qs, dh, j)
      /\ Height > 1 => (qs[dh[1]].name # "expr" => dh[1] = 1)
  BY DEF FamBelow
<1>3. Height - 1 \in 1..(Height - 1) /\ \A j \in 1..((Height - 1) - 1) : j \in 1..(Height - 1)
  BY <1>1
<1>4. QED
  BY <1>2, <1>3 DEF FamFrames

LEMMA FamNext ==
  ASSUME Covered(arena'), Kindred(arena'), status' = "done" => rules'[1].node = result',
         status' = "run" => /\ FamFrames(arena', rules', Chain')
                            /\ FamTop(arena', rules', Chain', t0', pratt')
  PROVE  FamInv'
BY DEF FamInv, SameResult

LEMMA RuleOne ==
  ASSUME FamRunning
  PROVE  rules[1].name = "val"
BY FamIs DEF FamFrames

\* The rule of the first term is one the chain has already.
LEMMA FirstIs ==
  ASSUME FamRunning
  PROVE  /\ First(rules, Chain, Height) \in DOMAIN rules
         /\ Height > 1 => First(rules, Chain, Height) = rules[Below].child
         /\ First(rules, Chain, Height) <= cur
<1>1. Height \in Nat \ {0} /\ cur \in DOMAIN rules /\ DOMAIN rules \subseteq Nat \ {0} /\ 1 \in DOMAIN rules
      /\ Sorted(rules, Chain)
  BY FamIs DEF Lives
<1>2. CASE Height = 1
  <2>1. First(rules, Chain, Height) = 1
    BY <1>2 DEF First
  <2>2. QED
    BY <1>1, <1>2, <2>1
<1>3. CASE Height # 1
  <2>1. Height > 1
    BY <1>1, <1>3
  <2>2. First(rules, Chain, Height) = rules[Below].child
    BY <1>3 DEF First, Below
  <2>3. /\ Waits(arena, rules, Chain, Height - 1) /\ Pushed(arena, rules, Chain, Height - 1)
        /\ Chain[Height - 1] = Below /\ Chain[(Height - 1) + 1] = cur
    BY <2>1, BelowWaits DEF FamRunning
  <2>4. Below \in DOMAIN rules
    BY <2>1, LinesBelow DEF FamRunning
  <2>5. rules[Below].child = cur \/ rules[Below].child < cur
    BY <2>3 DEF Waits, Pushed, Awaits
  <2>6. rules[Below].child # 0
    BY <1>1, <2>3 DEF Waits, Pushed, Awaits, Inside
  <2>7. rules[Below].child \in DOMAIN rules
    BY <1>1, <2>4, <2>6 DEF Sorted
  <2>8. QED
    BY <1>1, <2>2, <2>5, <2>7
<1>4. QED
  BY <1>2, <1>3

(***************************************************************************)
(* The ways a pass ends.                                                   *)
(***************************************************************************)
LEMMA OthersAs ==
  ASSUME FamRunning, NEW others, Others(others), NEW qs, DOMAIN rules \subseteq DOMAIN qs,
         qs[cur].name = rules[cur].name, \A r \in DOMAIN rules \ {cur} : qs[r] = others[r]
  PROVE  Others(qs)
<1>1. \A r \in DOMAIN rules : r \in DOMAIN qs /\ qs[r].name = rules[r].name
  BY DEF Others
<1>2. ASSUME Height > 1, NEW r \in DOMAIN rules, r <= Below PROVE qs[r] = rules[r]
  <2>1. Below < cur /\ Below \in DOMAIN rules
    BY <1>2, LinesBelow DEF FamRunning
  <2>2. r # cur
    BY <1>2, <2>1, FamIs
  <2>3. QED
    BY <1>2, <2>2 DEF Others
<1>3. QED
  BY <1>1, <1>2 DEF Others

LEMMA OthersSame ==
  ASSUME FamRunning
  PROVE  Others(rules)
BY DEF Others

LEMMA FirstSame ==
  ASSUME FamRunning, NEW b, NEW qs, NEW dh, FamBelow(b, qs, dh)
  PROVE  First(qs, dh, Height) = First(rules, Chain, Height)
<1>1. CASE Height = 1
  BY <1>1 DEF First
<1>2. CASE Height # 1
  <2>1. Height > 1
    BY <1>2, FamIs
  <2>2. qs[Below] = rules[Below] /\ dh[Height - 1] = Below
    BY <2>1 DEF FamBelow
  <2>3. QED
    BY <1>2, <2>2 DEF First, Below
<1>3. QED
  BY <1>1, <1>2

LEMMA PushesFam ==
  ASSUME FamRunning, NEW R, NEW name, NEW others, IsSeq(others), DOMAIN others = DOMAIN rules,
         Push(R, name, others), Formed(R), R.name = rules[cur].name, Others(others), Spares(arena')
  PROVE  LET new == Len(rules) + 1
             S   == rules'[cur]
             N   == rules'[new]
         IN  /\ /\ S.name = R.name /\ S.state = "close" /\ S.child = new /\ S.node = R.node
                /\ S.n = R.n /\ S.parent = R.parent /\ S.attach = R.attach /\ S.depth = R.depth
             /\ /\ N.name = name /\ N.state = "open" /\ N.node = R.node /\ N.n = R.n
                /\ N.parent = cur /\ N.prev = 0 /\ N.child = 0
             /\ \A r \in DOMAIN rules \ {cur} : rules'[r] = others[r]
             /\ FamBelow(arena', rules', Chain')
             /\ Roots(arena', rules', Chain', Height + 1) =
                  Awaited \cup (IF R.name = "expr" /\ name = "val" THEN {Root(arena', R.node)} ELSE {})
             /\ \A nm : Above(rules', Chain', Height + 1, nm) <=> R.name = nm
             /\ Seed(rules', Chain', Height + 1) <=> R.name = "expr"
             /\ Awaits(rules', cur) <=> R.name = "expr" /\ name = "val"
             /\ First(rules', Chain', Height + 1) = new
             /\ First(rules', Chain', Height) = First(rules, Chain, Height)
             /\ new # 0 /\ new # cur /\ cur' = new /\ status' = "run" /\ (Height + 1) - 1 = Height
             /\ Chain'[Height] = cur /\ Chain'[Height + 1] = new /\ Len(Chain') = Height + 1
             /\ FamAt(arena', rules', Chain', Height) => FamFrames(arena', rules', Chain')
<1> DEFINE new == Len(rules) + 1
           S   == rules'[cur]
           N   == rules'[new]
<1>1. /\ Height \in Nat \ {0} /\ cur \in DOMAIN rules /\ DOMAIN rules = 1..Len(rules)
      /\ Len(rules) \in Nat /\ status = "run"
  BY ChainIs DEF Running, FamRunning
<1>2. /\ new \in Nat /\ new > cur /\ DOMAIN rules' = 1..new /\ S = Closing(R, new)
      /\ \A r \in DOMAIN rules \ {cur} : rules'[r] = others[r]
      /\ N = Rule(name, R.node, R.n, cur, 0, R.d + 1)
      /\ cur' = new /\ status' = status
      /\ Len(Chain') = Height + 1 /\ \A i \in 1..Height : Chain'[i] = Chain[i]
      /\ Chain'[Height] = cur /\ Chain'[Height + 1] = new
  BY PushShape DEF FamRunning
<1>3. new # 0 /\ new # cur /\ DOMAIN rules \subseteq DOMAIN rules'
  BY <1>1, <1>2
<1> HIDE DEF new, S, N
<1>4. /\ S.name = R.name /\ S.state = "close" /\ S.child = new /\ S.node = R.node
      /\ S.n = R.n /\ S.parent = R.parent /\ S.attach = R.attach /\ S.depth = R.depth
  BY <1>2 DEF Formed, Closing
<1>5. /\ N.name = name /\ N.state = "open" /\ N.node = R.node /\ N.n = R.n
      /\ N.parent = cur /\ N.prev = 0 /\ N.child = 0
  BY <1>2 DEF Rule
<1>6. /\ Height + 1 # 1 /\ (Height + 1) - 1 = Height /\ Height + 1 > 1
      /\ \A i \in 1..(Height - 1) : i \in 1..Height
  BY <1>1
<1>7. Others(rules')
  <2>1. rules'[cur].name = rules[cur].name
    BY <1>4 DEF S
  <2>2. QED
    BY <1>2, <1>3, <2>1, OthersAs
<1>8. \A i \in 1..(Height - 1) : Chain'[i] = Chain[i]
  BY <1>2, <1>6
<1>9. FamBelow(arena', rules', Chain')
  BY <1>7, <1>8, TopFam
<1>10. /\ Awaits(rules', cur) <=> R.name = "expr" /\ name = "val"
       /\ rules'[Chain'[Height]].node = R.node
  <2>1. Chain'[Height] = cur
    BY <1>2
  <2>2. /\ rules'[cur].name = R.name /\ rules'[cur].child = new /\ rules'[cur].node = R.node
        /\ rules'[new].name = name
    BY <1>4, <1>5 DEF S, N
  <2>3. QED
    BY <1>3, <2>1, <2>2 DEF Awaits
<1>11. Roots(arena', rules', Chain', Height + 1) =
         Awaited \cup (IF R.name = "expr" /\ name = "val" THEN {Root(arena', R.node)} ELSE {})
  <2>1. Roots(arena', rules', Chain', Height + 1) =
          Roots(arena', rules', Chain', Height)
            \cup (IF Awaits(rules', Chain'[Height])
                   THEN {Root(arena', rules'[Chain'[Height]].node)} ELSE {})
    BY <1>1, RootsNext
  <2>2. Roots(arena', rules', Chain', Height) = Awaited
    BY <1>9 DEF FamBelow
  <2>3. QED
    BY <1>2, <1>10, <2>1, <2>2
<1>12. \A nm : Above(rules', Chain', Height + 1, nm) <=> R.name = nm
  BY <1>2, <1>4, <1>6 DEF Above, S
<1>13. Seed(rules', Chain', Height + 1) <=> R.name = "expr"
  BY <1>2, <1>4, <1>5, <1>6, <1>12 DEF Seed, S, N
<1>14. First(rules', Chain', Height + 1) = new
  BY <1>2, <1>4, <1>6 DEF First, S
<1>15. First(rules', Chain', Height) = First(rules, Chain, Height)
  BY <1>9, FirstSame
<1>16. FamAt(arena', rules', Chain', Height) => FamFrames(arena', rules', Chain')
  BY <1>2, <1>7, <1>8, FramesPush
<1>17. QED
  BY <1>1, <1>2, <1>3, <1>4, <1>5, <1>6, <1>9, <1>10, <1>11, <1>12, <1>13, <1>14, <1>15, <1>16
     DEF S, N, new

LEMMA StaysFam ==
  ASSUME FamRunning, NEW R, NEW others, IsSeq(others), DOMAIN others = DOMAIN rules,
         rules' = [others EXCEPT ![cur] = R], cur' = cur, stack' = stack,
         R.name = rules[cur].name, Others(others), Spares(arena')
  PROVE  /\ rules'[cur] = R /\ \A r \in DOMAIN rules \ {cur} : rules'[r] = others[r]
         /\ FamBelow(arena', rules', Chain')
         /\ First(rules', Chain', Height) = First(rules, Chain, Height)
         /\ Chain'[Height] = cur /\ Len(Chain') = Height
         /\ FamFrames(arena', rules', Chain')
<1>1. /\ DOMAIN rules' = DOMAIN rules /\ rules'[cur] = R
      /\ \A r \in DOMAIN rules \ {cur} : rules'[r] = others[r]
      /\ Chain' = Chain
  BY StayShape DEF FamRunning
<1>2. Len(Chain) = Height /\ Chain[Height] = cur
  BY FamIs
<1>3. Others(rules')
  BY <1>1, OthersAs
<1>4. \A i \in 1..(Height - 1) : Chain'[i] = Chain[i]
  BY <1>1
<1>5. FamBelow(arena', rules', Chain')
  BY <1>3, <1>4, TopFam
<1>6. FamFrames(arena', rules', Chain')
  BY <1>1, <1>2, <1>3, <1>4, FramesStay
<1>7. QED
  BY <1>1, <1>2, <1>5, <1>6, FirstSame

\* An expr in the place of the rule on top.
LEMMA ReplacesFam ==
  ASSUME FamRunning, NEW R, NEW S,
         rules' = Append([rules EXCEPT ![cur] = R], S), cur' = Len(rules) + 1, stack' = stack,
         R.name = rules[cur].name, S.name = "expr", Spares(arena')
  PROVE  LET new == Len(rules) + 1
         IN  /\ rules'[cur] = R /\ \A r \in DOMAIN rules \ {cur} : rules'[r] = rules[r]
             /\ rules'[new] = S /\ new # cur
             /\ FamBelow(arena', rules', Chain')
             /\ First(rules', Chain', Height) = First(rules, Chain, Height)
             /\ Chain'[Height] = new /\ Len(Chain') = Height
             /\ FamFrames(arena', rules', Chain')
<1> DEFINE new == Len(rules) + 1
<1>1. /\ new \in Nat /\ new > cur /\ DOMAIN rules' = 1..new
      /\ rules'[cur] = R
      /\ \A r \in DOMAIN rules \ {cur} : rules'[r] = rules[r]
      /\ rules'[new] = S
      /\ Len(Chain') = Height /\ \A i \in 1..(Height - 1) : Chain'[i] = Chain[i]
      /\ Chain'[Height] = new
  BY ReplaceShape DEF FamRunning
<1>2. /\ Len(Chain) = Height /\ Chain[Height] = cur
      /\ DOMAIN rules = 1..Len(rules) /\ Len(rules) \in Nat /\ cur \in DOMAIN rules
  BY FamIs, ChainIs DEF FamRunning
<1>3. DOMAIN rules \subseteq DOMAIN rules' /\ new # cur
  BY <1>1, <1>2
<1> HIDE DEF new
<1>4. Others(rules')
  BY <1>1, <1>3, OthersAs, OthersSame
<1>5. FamBelow(arena', rules', Chain')
  BY <1>1, <1>4, TopFam
<1>6. FamFrames(arena', rules', Chain')
  BY <1>1, <1>4, FramesStay
<1>7. QED
  BY <1>1, <1>3, <1>5, <1>6, FirstSame DEF new

LEMMA PopsFam ==
  ASSUME FamRunning, NEW R, NEW others, NEW next, IsSeq(others), DOMAIN others = DOMAIN rules,
         Pop(R, others, next), R.name = rules[cur].name, Others(others), Spares(arena'),
         status' = "run"
  PROVE  /\ rules'[cur] = R /\ \A r \in DOMAIN rules \ {cur} : rules'[r] = others[r]
         /\ Height > 1 /\ cur' = Below
         /\ Chain'[Height - 1] = Below /\ Len(Chain') = Height - 1
         /\ rules'[Below] = rules[Below] /\ FamBelow(arena', rules', Chain')
         /\ First(rules', Chain', Height - 1) = First(rules, Chain, Height - 1)
         /\ Roots(arena', rules', Chain', Height - 1) = Roots(arena, rules, Chain, Height - 1)
         /\ FamFrames(arena', rules', Chain') /\ FamAt(arena', rules', Chain', Height - 1)
<1>1. /\ DOMAIN rules' = DOMAIN rules /\ rules'[cur] = R
      /\ \A r \in DOMAIN rules \ {cur} : rules'[r] = others[r]
      /\ Height > 1 /\ cur' = Below /\ cur' # 0 /\ Len(Chain') = Height - 1
      /\ \A i \in 1..(Height - 1) : Chain'[i] = Chain[i]
  BY PopShape DEF FamRunning
<1>2. Height \in Nat \ {0}
  BY FamIs
<1>3. Others(rules')
  BY <1>1, OthersAs
<1>4. FamBelow(arena', rules', Chain')
  BY <1>1, <1>3, TopFam
<1>5. FamFrames(arena', rules', Chain') /\ FamAt(arena', rules', Chain', Height - 1)
  BY <1>1, <1>3, FramesPop
<1>6. /\ Chain'[Height - 1] = Below /\ rules'[Below] = rules[Below]
      /\ Roots(arena', rules', Chain', Height - 1) = Roots(arena, rules, Chain, Height - 1)
  BY <1>1, <1>4 DEF FamBelow
<1>7. First(rules', Chain', Height - 1) = First(rules, Chain, Height - 1)
  <2> DEFINE q == Height - 1
  <2>1. CASE q = 1
    BY <2>1 DEF First
  <2>2. CASE q # 1
    <3>1. q - 1 \in 1..(Height - 1) /\ q - 1 \in 1..q /\ q - 1 < q /\ q - 1 \in 0..(Height - 1) /\ q \in 1..(Height - 1)
      BY <1>1, <1>2, <2>2
    <3>2. Chain'[q - 1] = Chain[q - 1]
      BY <1>1, <3>1
    <3>3. rules'[Chain[q - 1]] = rules[Chain[q - 1]]
      <4>1. Chain[q - 1] \in DOMAIN rules /\ Chain[q - 1] < Chain[q] /\ Chain[q] = Below /\ Chain[q] \in DOMAIN rules
        <5>1. q - 1 \in 1..Len(Chain) /\ q \in 1..Len(Chain)
          BY <1>2, <3>1, FamIs
        <5>2. QED
          BY <3>1, <5>1, FamIs DEF Sorted, Frames, Below
      <4>2. Chain[q - 1] <= Below
        BY <4>1, FamIs
      <4>3. QED
        BY <1>1, <1>3, <4>1, <4>2 DEF Others
    <3>4. QED
      BY <2>2, <3>2, <3>3 DEF First
  <2>3. QED
    BY <2>1, <2>2
<1>8. QED
  BY <1>1, <1>4, <1>5, <1>6, <1>7

(***************************************************************************)
(* val                                                                     *)
(***************************************************************************)
\* The rule on top is a val.
LEMMA ValIs ==
  ASSUME FamRunning, rules[cur].name = "val"
  PROVE  LET V == rules[cur]
             seed == Seed(rules, Chain, Height)
         IN  /\ seed \/ Sole(arena, Awaited, V.node)
             /\ seed \/ Own(arena, Awaited, V.node)
             /\ ~seed /\ Under("expr") => V.state = "close" /\ Foreign(arena, V.node)
             /\ V.state = "close" /\ V.child # 0 => V.node.k = "node"
             /\ seed <=> Under("expr") /\ V.node = rules[Below].node
             /\ seed => V.node.k = "node"
             /\ V.node.k = "node" => Free(arena, Root(arena, V.node)) /\ V.node.id \in DOMAIN arena.nodes
             /\ ~Under("val") /\ (Under("expr") => Awaits(rules, Below))
             /\ V.node \in Value
<1> DEFINE V == rules[cur]
           seed == Seed(rules, Chain, Height)
<1>1. /\ FamTop(arena, rules, Chain, t0, pratt) /\ Len(Chain) = Height /\ Chain[Height] = cur
      /\ Height \in Nat \ {0} /\ Lives(arena, rules) /\ cur \in DOMAIN rules
      /\ \A j \in 1..(Height - 1) : FamAt(arena, rules, Chain, j)
  BY FamIs
<1>2. FamVal(arena, rules, Chain, Height)
  BY <1>1 DEF FamTop
<1>3. /\ seed \/ Sole(arena, Awaited, V.node)
      /\ ~seed /\ Under("expr") => V.state = "close" /\ Foreign(arena, V.node)
      /\ V.state = "close" /\ V.child # 0 => V.node.k = "node"
  BY <1>1, <1>2 DEF FamVal, Awaited, Under
<1>4. seed <=> Under("expr") /\ V.node = rules[Below].node
  BY <1>1 DEF Seed, Under, Below
<1>5. ~Under("val")
  BY ValBelow DEF FamRunning
<1>6. ASSUME Under("expr")
      PROVE  /\ Awaits(rules, Below) /\ Height - 1 \in 1..(Height - 1) /\ Chain[Height - 1] = Below
             /\ rules[Below].node.k = "node" /\ Free(arena, Root(arena, rules[Below].node))
  <2>1. Height > 1
    BY <1>6 DEF Under, Above
  <2>2. /\ Pushed(arena, rules, Chain, Height - 1) /\ Chain[Height - 1] = Below
        /\ Chain[(Height - 1) + 1] = cur /\ rules[Below].name = "expr"
    BY <1>6, <2>1, BelowWaits, LinesBelow DEF FamRunning
  <2>3. rules[Below].child = cur
    BY <2>2 DEF Pushed
  <2>4. cur # 0
    BY FamIs
  <2>5. Awaits(rules, Below)
    BY <2>2, <2>3, <2>4 DEF Awaits
  <2>6. Height - 1 \in 1..(Height - 1)
    BY <1>1, <2>1
  <2>7. ExprOwn(arena, rules, Chain, Height - 1, rules[Below].node)
    BY <1>1, <2>2, <2>5, <2>6 DEF FamAt
  <2>8. QED
    BY <2>2, <2>5, <2>6, <2>7 DEF ExprOwn
<1>7. V.node.k = "node" => Free(arena, Root(arena, V.node)) /\ V.node.id \in DOMAIN arena.nodes
  BY <1>1, <1>3, <1>4, <1>6 DEF Sole, Own, Lives
<1>8. V.node \in Value
  BY <1>1, ChainIs, Fields DEF FamRunning
<1>9. QED
  BY <1>3, <1>4, <1>5, <1>6, <1>7, <1>8 DEF Sole

LEMMA PushExprFam ==
  ASSUME FamRunning, rules[cur].name = "val", NEW R, Formed(R), R.name = "val",
         Push(R, "expr", rules), arena' = arena, pratt' = NoCall,
         R.node = rules[cur].node \/ Own(arena, Awaited, R.node),
         t0' \in DOMAIN Prefix =>
           R.node = rules[cur].node /\ (Under("expr") => Seed(rules, Chain, Height))
  PROVE  FamInv'
<1> DEFINE new == Len(rules) + 1
           S   == rules'[cur]
           N   == rules'[new]
<1>1. IsSeq(rules) /\ Others(rules) /\ Spares(arena') /\ Covered(arena) /\ Kindred(arena)
  BY FamIs, ChainIs, GrownSame, OthersSame DEF FamRunning
<1>2. /\ S.name = R.name /\ S.node = R.node
      /\ N.name = "expr" /\ N.state = "open"
      /\ FamBelow(arena', rules', Chain')
      /\ \A nm : Above(rules', Chain', Height + 1, nm) <=> R.name = nm
      /\ Awaits(rules', cur) <=> R.name = "expr" /\ "expr" = "val"
      /\ cur' = new /\ status' = "run" /\ (Height + 1) - 1 = Height
      /\ Chain'[Height] = cur /\ Chain'[Height + 1] = new /\ Len(Chain') = Height + 1
      /\ FamAt(arena', rules', Chain', Height) => FamFrames(arena', rules', Chain')
  BY <1>1, PushesFam
<1> HIDE DEF new, S, N
<1>3. /\ \A nm : Above(rules', Chain', Height, nm) <=> Under(nm)
      /\ Roots(arena', rules', Chain', Height) = Awaited
      /\ Height > 1 => rules'[Below] = rules[Below] /\ Chain'[Height - 1] = Below
  BY <1>2 DEF FamBelow
<1>4. LET seed == Seed(rules, Chain, Height)
      IN  /\ seed \/ Own(arena, Awaited, rules[cur].node)
          /\ seed <=> Under("expr") /\ rules[cur].node = rules[Below].node
          /\ rules[cur].node.k = "node" => Free(arena, Root(arena, rules[cur].node))
  BY ValIs
<1>5. Under("expr") => Height > 1
  BY DEF Under, Above
<1>6. Seed(rules', Chain', Height) <=> Under("expr") /\ R.node = rules[Below].node
  BY <1>2, <1>3, <1>5 DEF Seed, S
<1>7. FamAt(arena', rules', Chain', Height)
  <2>1. Seed(rules', Chain', Height) \/ Own(arena', Roots(arena', rules', Chain', Height), S.node)
    BY <1>2, <1>3, <1>4, <1>6
  <2>2. ~Awaits(rules', Chain'[Height]) /\ S.name = "val"
    BY <1>2
  <2>3. QED
    BY <1>2, <2>1, <2>2 DEF FamAt, S
<1>8. FamOpen(arena', rules', Chain', Height + 1, t0')
  <2>1. Above(rules', Chain', Height + 1, "val")
    BY <1>2
  <2>2. ASSUME t0' \in DOMAIN Prefix
        PROVE  /\ Above(rules', Chain', Height, "expr") => Seed(rules', Chain', Height)
               /\ R.node.k = "node" => Free(arena', Root(arena', R.node))
    BY <1>3, <1>4, <1>6, <2>2
  <2>3. rules'[Chain'[(Height + 1) - 1]].node = R.node
    BY <1>2 DEF S
  <2>4. QED
    BY <1>2, <2>1, <2>2, <2>3 DEF FamOpen
<1>9. FamTop(arena', rules', Chain', t0', pratt')
  <2>1. Chain'[Len(Chain')] = new /\ Len(Chain') = Height + 1
    BY <1>2
  <2>2. QED
    BY <1>2, <1>8, <2>1 DEF FamTop, N
<1>10. QED
  BY <1>1, <1>2, <1>7, <1>9, FamNext

LEMMA ValOpenPrefixFam ==
  ASSUME FamRunning, ValOpenPrefix
  PROVE  FamInv'
<1> DEFINE R == [rules[cur] EXCEPT !.n.prefix = @ + 1, !.n.suffix = 0]
<1>1. /\ Passing("val", "open") /\ Push(R, "expr", rules) /\ arena' = arena /\ pratt' = pratt
  BY DEF ValOpenPrefix
<1>2. /\ rules[cur].name = "val" /\ rules[cur].state = "open" /\ Formed(rules[cur]) /\ pratt = NoCall
  BY <1>1, PassIs DEF FamRunning
<1>3. Formed(R) /\ R.name = "val" /\ R.node = rules[cur].node
  BY <1>2 DEF Formed
<1> HIDE DEF R
<1>4. Under("expr") => Seed(rules, Chain, Height)
  BY <1>2, ValIs
<1>5. QED
  BY <1>1, <1>2, <1>3, <1>4, PushExprFam

LEMMA ValOpenPrevalFam ==
  ASSUME FamRunning, ValOpenPreval
  PROVE  FamInv'
<1> DEFINE R == [rules[cur] EXCEPT !.value = Leaf(at), !.node = Leaf(at), !.preval = TRUE]
<1>1. /\ Passing("val", "open") /\ ValOpenAlt = "preval" /\ Push(R, "expr", rules) /\ Consume
      /\ arena' = arena /\ pratt' = pratt
  BY DEF ValOpenPreval
<1>2. rules[cur].name = "val" /\ Formed(rules[cur]) /\ pratt = NoCall
  BY <1>1, PassIs DEF FamRunning
<1>3. Formed(R) /\ R.name = "val" /\ R.node = Leaf(at)
  BY <1>2 DEF Formed
<1> HIDE DEF R
<1>4. Own(arena, Awaited, R.node)
  BY <1>3 DEF Own, Leaf
<1>5. t0' \notin DOMAIN Prefix
  <2>1. InputTyped
    BY DEF FamRunning, Running, TypeInv, Typed
  <2>2. QED
    BY <1>1, <2>1, ValOpenChosen, NextToken, BracketTokens
<1>6. QED
  BY <1>1, <1>2, <1>3, <1>4, <1>5, PushExprFam

LEMMA ValOpenParenFam ==
  ASSUME FamRunning, ValOpenParen
  PROVE  FamInv'
<1>1. /\ Passing("val", "open") /\ ValOpenAlt = "paren" /\ Push(rules[cur], "expr", rules) /\ Keep
      /\ arena' = arena /\ pratt' = pratt
  BY DEF ValOpenParen
<1>2. rules[cur].name = "val" /\ Formed(rules[cur]) /\ pratt = NoCall
  BY <1>1, PassIs DEF FamRunning
<1>3. t0' \notin DOMAIN Prefix
  BY <1>1, ValOpenChosen, KeepsToken, BracketTokens
<1>4. QED
  BY <1>1, <1>2, <1>3, PushExprFam

\* What a val takes over from what it read is no node, unless it is its own.
LEMMA FamCoalesces ==
  ASSUME FamRunning, Passing("val", "close")
  PROVE  LET V == rules[cur]
             W == ValClosing
         IN  /\ W.node = V.node \/ (W.node.k # "node" /\ V.node.k # "node")
             /\ V.name = "val" /\ V.state = "close"
<1> DEFINE V == rules[cur]
           W == ValClosing
<1>1. /\ V.name = "val" /\ V.state = "close" /\ Formed(V) /\ V \in Rules(Value, Len(rules))
  BY PassIs DEF FamRunning
<1>2. V.node \in Value /\ V.value.k # "node"
  BY <1>1, Fields
<1>3. W.node = IF IsOp(arena, V.node) THEN V.node
               ELSE IF NodeOf(V.child) # Undefined THEN NodeOf(V.child) ELSE V.value
  BY <1>1 DEF Formed, ValClosing, Coalesced
<1>4. IsOp(arena, V.node) <=> V.node.k = "node"
  BY <1>2, NodeLives
<1>5. V.child # 0 => V.node.k = "node"
  BY <1>1, ValIs
<1>6. V.child = 0 => NodeOf(V.child) = Undefined
  BY DEF NodeOf
<1> HIDE DEF V, W
<1>7. W.node = V.node \/ (W.node.k # "node" /\ V.node.k # "node")
  BY <1>2, <1>3, <1>4, <1>5, <1>6
<1>8. QED
  BY <1>1, <1>7 DEF V, W

LEMMA ValCloseChainFam ==
  ASSUME FamRunning, ValCloseChain
  PROVE  FamInv'
<1> DEFINE R == [ValClosing EXCEPT !.preval = TRUE]
<1>1. /\ Passing("val", "close") /\ ValCloseAlt(ValClosing) = "chain"
      /\ Push(R, "expr", rules) /\ Keep /\ arena' = arena /\ pratt' = pratt
  BY DEF ValCloseChain
<1>2. rules[cur].name = "val" /\ pratt = NoCall
  BY <1>1, PassIs DEF FamRunning
<1>3. t0' \notin DOMAIN Prefix
  BY <1>1, ValCloseChosen, KeepsToken, BracketTokens
<1>4. Formed(ValClosing) /\ ValClosing.name = "val"
  BY <1>1, Coalesces DEF FamRunning
<1>5. Formed(R) /\ R.name = "val" /\ R.node = ValClosing.node
  BY <1>4 DEF Formed
<1> HIDE DEF R
<1>6. R.node = rules[cur].node \/ Own(arena, Awaited, R.node)
  BY <1>1, <1>5, FamCoalesces DEF Own
<1>7. QED
  BY <1>1, <1>2, <1>3, <1>4, <1>5, <1>6, PushExprFam

LEMMA ValStaysFam ==
  ASSUME FamRunning, rules[cur].name = "val", rules[cur].state = "open", NEW R, R.name = "val",
         R.child = 0, R.state = "close", R.node = rules[cur].node \/ R.node.k # "node",
         rules' = [rules EXCEPT ![cur] = R], cur' = cur, stack' = stack, arena' = arena,
         status' = status
  PROVE  FamInv'
<1>1. IsSeq(rules) /\ Others(rules) /\ Spares(arena') /\ Covered(arena) /\ Kindred(arena)
      /\ status = "run"
  BY FamIs, ChainIs, GrownSame, OthersSame DEF FamRunning, Running
<1>2. /\ rules'[cur] = R /\ FamBelow(arena', rules', Chain')
      /\ Chain'[Height] = cur /\ Len(Chain') = Height /\ FamFrames(arena', rules', Chain')
  BY <1>1, StaysFam
<1>3. /\ \A nm : Above(rules', Chain', Height, nm) <=> Under(nm)
      /\ Roots(arena', rules', Chain', Height) = Awaited
      /\ Height > 1 => rules'[Below] = rules[Below] /\ Chain'[Height - 1] = Below
  BY <1>2 DEF FamBelow
<1>4. LET V == rules[cur]
          seed == Seed(rules, Chain, Height)
      IN  /\ seed \/ Sole(arena, Awaited, V.node)
          /\ ~seed /\ Under("expr") => V.state = "close" /\ Foreign(arena, V.node)
          /\ seed <=> Under("expr") /\ V.node = rules[Below].node
  BY ValIs
<1>5. Under("expr") => Height > 1
  BY DEF Under, Above
<1>6. CASE R.node = rules[cur].node
  <2>1. Seed(rules', Chain', Height) <=> Seed(rules, Chain, Height)
    BY <1>2, <1>3, <1>4, <1>5, <1>6 DEF Seed
  <2>2. FamVal(arena', rules', Chain', Height)
    BY <1>2, <1>3, <1>4, <1>6, <2>1 DEF FamVal
  <2>3. FamTop(arena', rules', Chain', t0', pratt')
    BY <1>2, <2>2 DEF FamTop
  <2>4. QED
    BY <1>1, <1>2, <2>3, FamNext
<1>7. CASE R.node.k # "node"
  <2>1. Sole(arena', Awaited, R.node) /\ Foreign(arena', R.node)
    BY <1>7 DEF Sole, Own, Foreign
  <2>2. FamVal(arena', rules', Chain', Height)
    BY <1>2, <1>3, <2>1 DEF FamVal
  <2>3. FamTop(arena', rules', Chain', t0', pratt')
    BY <1>2, <2>2 DEF FamTop
  <2>4. QED
    BY <1>1, <1>2, <2>3, FamNext
<1>8. QED
  BY <1>6, <1>7

LEMMA ValOpenValueFam ==
  ASSUME FamRunning, ValOpenValue
  PROVE  FamInv'
<1> DEFINE R == [rules[cur] EXCEPT !.value = Leaf(at), !.node = Undefined]
           S == [R EXCEPT !.state = "close"]
<1>1. Passing("val", "open") /\ Stay(R, rules) /\ arena' = arena
  BY DEF ValOpenValue
<1>2. /\ rules[cur].name = "val" /\ rules[cur].state = "open" /\ Formed(rules[cur])
      /\ rules[cur].child = 0
  BY <1>1, PassIs DEF FamRunning
<1>3. rules' = [rules EXCEPT ![cur] = S] /\ cur' = cur /\ stack' = stack /\ status' = status
  BY <1>1 DEF Stay
<1>4. Formed(R) /\ R.name = "val" /\ R.node = Undefined /\ R.child = 0
  BY <1>2 DEF Formed
<1> HIDE DEF R
<1>5. S.name = "val" /\ S.node = Undefined /\ S.child = 0 /\ S.state = "close"
  BY <1>4 DEF Formed
<1> HIDE DEF S
<1>6. S.node.k # "node"
  BY <1>5 DEF Undefined
<1>7. QED
  BY <1>1, <1>2, <1>3, <1>5, <1>6, ValStaysFam

LEMMA ValOpenEndFam ==
  ASSUME FamRunning, ValOpenEnd
  PROVE  FamInv'
<1> DEFINE S == [rules[cur] EXCEPT !.state = "close"]
<1>1. Passing("val", "open") /\ Stay(rules[cur], rules) /\ arena' = arena
  BY DEF ValOpenEnd
<1>2. /\ rules[cur].name = "val" /\ rules[cur].state = "open" /\ Formed(rules[cur])
      /\ rules[cur].child = 0
  BY <1>1, PassIs DEF FamRunning
<1>3. rules' = [rules EXCEPT ![cur] = S] /\ cur' = cur /\ stack' = stack /\ status' = status
  BY <1>1 DEF Stay
<1>4. S.name = "val" /\ S.node = rules[cur].node /\ S.child = 0 /\ S.state = "close"
  BY <1>2 DEF Formed
<1> HIDE DEF S
<1>5. QED
  BY <1>1, <1>2, <1>3, <1>4, ValStaysFam

\* The rule on top is the one its chain began with, when it is a val or a paren
\* that the first rule is.
LEMMA FirstVal ==
  ASSUME FamRunning, rules[cur].name = "val", ~Under("expr")
  PROVE  First(rules, Chain, Height) = cur
<1>1. /\ Height \in Nat \ {0} /\ Chain[Height] = cur /\ FamFrames(arena, rules, Chain)
      /\ ~Under("val")
  BY FamIs, ValIs
<1>2. CASE Height = 1
  BY <1>1, <1>2 DEF FamFrames, First
<1>3. CASE Height # 1
  <2>1. Height > 1
    BY <1>1, <1>3
  <2>2. rules[Below].child = cur
    BY <1>1, <2>1, UnderParen DEF FamRunning
  <2>3. QED
    BY <2>1, <2>2, FirstIs
<1>4. QED
  BY <1>2, <1>3

LEMMA HandleIs ==
  ASSUME NEW v \in Value, v.k = "node"
  PROVE  v = Handle(v.id)
BY DEF Value, Values, Handle

LEMMA ValReplaceFam ==
  ASSUME FamRunning, Passing("val", "close"), NEW R, Formed(R), R.name = "val",
         R.node = ValClosing.node, R.attach = Undefined, R.parent = rules[cur].parent,
         R.n.expr = rules[cur].n.expr, R.n.expr = 0,
         Replace(R, "expr", rules), arena' = arena, pratt' = NoCall
  PROVE  FamInv'
<1> DEFINE S == Rule("expr", R.node, R.n, R.parent, cur, R.d)
           new == Len(rules) + 1
           v == R.node
<1>1. rules[cur].name = "val" /\ status = "run"
  BY PassIs DEF FamRunning, Running
<1>2. /\ ValHolds(arena, rules, Chain, Height) /\ ~Under("val") /\ Height \in Nat \ {0}
      /\ Chain[Height] = cur
  BY <1>1, ValBelow, FamIs DEF FamRunning
<1>3. ~Under("expr")
  BY <1>1, <1>2 DEF ValHolds, Under
<1>4. First(rules, Chain, Height) = cur
  BY <1>1, <1>3, FirstVal
<1>5. /\ rules[cur].parent = IF Height = 1 THEN 0 ELSE Below
      /\ Height > 1 => Linked(rules, Below) = Undefined /\ Below < cur /\ Below # cur
                       /\ Below \in DOMAIN rules
  <2>1. rules[cur].parent = IF Height = 1 THEN 0 ELSE Below
    BY <1>2 DEF ValHolds, Below
  <2>2. Height > 1 => Linked(rules, Below) = Undefined
    BY <1>2, <1>3, UnderParen DEF FamRunning
  <2>3. Height > 1 => Below < cur /\ Below # cur /\ Below \in DOMAIN rules
    BY LinesBelow DEF FamRunning
  <2>4. QED
    BY <2>1, <2>2, <2>3
<1>6. S.name = "expr" /\ S.state = "open" /\ S.prev = cur /\ S.parent = rules[cur].parent
  BY DEF Rule
<1>7. /\ rules' = Append([rules EXCEPT ![cur] = R], S) /\ cur' = Len(rules) + 1
      /\ stack' = stack /\ status' = status
  BY DEF Replace
<1>8. Spares(arena') /\ Covered(arena) /\ Kindred(arena)
  BY FamIs, GrownSame
<1>9. R.node = rules[cur].node \/ (R.node.k # "node" /\ rules[cur].node.k # "node")
  BY FamCoalesces
<1> HIDE DEF S
<1>60. R.name = rules[cur].name /\ S.name = "expr" /\ Spares(arena')
  BY <1>1, <1>6, <1>8
<1>10. /\ rules'[cur] = R /\ \A r \in DOMAIN rules \ {cur} : rules'[r] = rules[r]
       /\ rules'[new] = S /\ new # cur
       /\ FamBelow(arena', rules', Chain')
       /\ First(rules', Chain', Height) = First(rules, Chain, Height)
       /\ Chain'[Height] = new /\ Len(Chain') = Height
       /\ FamFrames(arena', rules', Chain')
  BY <1>7, <1>60, ReplacesFam
<1> HIDE DEF new
<1>11. /\ \A nm : Above(rules', Chain', Height, nm) <=> Under(nm)
       /\ Roots(arena', rules', Chain', Height) = Awaited
       /\ Height > 1 => rules'[Below] = rules[Below] /\ Chain'[Height - 1] = Below
  BY <1>10 DEF FamBelow
<1>12. cur # 0 /\ Linked(rules', cur) = v
  BY <1>10, FamIs DEF Linked, Undefined
<1>13. Linked(rules', S.parent).k # "node"
  <2>1. CASE Height = 1
    BY <1>5, <1>6, <2>1 DEF Linked, Undefined
  <2>2. CASE Height # 1
    <3>1. Height > 1 /\ S.parent = Below
      BY <1>2, <1>5, <1>6, <2>2
    <3>2. Linked(rules', Below) = Linked(rules, Below)
      BY <1>11, <3>1 DEF Linked
    <3>3. QED
      BY <1>5, <3>1, <3>2 DEF Undefined
  <2>3. QED
    BY <2>1, <2>2
<1>14. v.k = "node" => ExprOwn(arena', rules', Chain', Height, v)
  <2> SUFFICES ASSUME v.k = "node" PROVE ExprOwn(arena', rules', Chain', Height, v)
    OBVIOUS
  <2>1. v = rules[cur].node /\ Own(arena, Awaited, v) /\ Free(arena, Root(arena, v)) /\ v \in Value
    BY <1>1, <1>3, <1>9, ValIs
  <2>2. Root(arena, v) = v.id /\ v.id \notin Awaited /\ v = Handle(v.id)
    BY <2>1, HandleIs DEF Own
  <2>3. Tied(arena', rules', Chain', Height, Root(arena', v))
    BY <1>4, <1>6, <1>10, <1>13, <2>2 DEF Tied
  <2>4. QED
    BY <1>2, <1>11, <2>1, <2>2, <2>3 DEF ExprOwn
<1>15. FamOpen(arena', rules', Chain', Height, t0')
  <2>1. Height > 1 => S.prev > Chain'[Height - 1]
    <3>1. Height > 1 => Below < cur /\ Below \in Nat /\ cur \in Nat
      BY <1>5, FamIs
    <3>2. QED
      BY <1>6, <1>11, <3>1
  <2>2. ~Above(rules', Chain', Height, "val")
    BY <1>2, <1>11
  <2>3. S.prev = cur /\ rules'[Chain'[Height]] = S
    BY <1>6, <1>10
  <2>4. v.k # "node" => S.prev = First(rules', Chain', Height) /\ Linked(rules', S.parent).k # "node"
    BY <1>4, <1>10, <1>13, <2>3
  <2>5. QED
    BY <1>12, <1>14, <2>1, <2>2, <2>3, <2>4 DEF FamOpen
<1>16. FamTop(arena', rules', Chain', t0', pratt')
  BY <1>6, <1>10, <1>15 DEF FamTop
<1>17. QED
  BY <1>1, <1>7, <1>8, <1>10, <1>16, FamNext

\* The expressions that await an operand at the rule on top and at the one below it.
LEMMA AwaitedBelow ==
  ASSUME FamRunning, Height > 1
  PROVE  /\ Awaited = Roots(arena, rules, Chain, Height - 1)
                        \cup (IF Awaits(rules, Below) THEN {Root(arena, rules[Below].node)} ELSE {})
         /\ rules[Below].name # "expr" => Awaited = Roots(arena, rules, Chain, Height - 1)
         /\ Height - 1 \in 1..(Height - 1)
<1>1. Height - 1 \in Nat \ {0} /\ (Height - 1) + 1 = Height /\ Height - 1 \in 1..(Height - 1)
  BY FamIs
<1>2. Roots(arena, rules, Chain, (Height - 1) + 1) =
        Roots(arena, rules, Chain, Height - 1)
          \cup (IF Awaits(rules, Chain[Height - 1])
                 THEN {Root(arena, rules[Chain[Height - 1]].node)} ELSE {})
  BY <1>1, RootsNext
<1>3. QED
  BY <1>1, <1>2 DEF Awaited, Below, Awaits

\* The last rule pops.
LEMMA PopsOver ==
  ASSUME FamRunning, NEW R, NEW others, NEW next, IsSeq(others), DOMAIN others = DOMAIN rules,
         Pop(R, others, next), status' # "run"
  PROVE  /\ Height = 1 /\ result' = R.node /\ rules'[cur] = R
         /\ \A r \in DOMAIN rules \ {cur} : rules'[r] = others[r]
<1>1. status = "run" /\ IsSeq(stack) /\ cur \in DOMAIN rules
  BY FamIs, ChainIs DEF FamRunning, Running
<1>2. stack = <<>> /\ result' = R.node /\ rules' = [others EXCEPT ![cur] = R]
  BY <1>1 DEF Pop
<1>3. Height = 1
  BY <1>2 DEF Height
<1>4. QED
  BY <1>1, <1>2, <1>3

LEMMA ValPopsFam ==
  ASSUME FamRunning, rules[cur].name = "val", rules[cur].state = "close", NEW R, R.name = "val",
         R.node = rules[cur].node \/ (R.node.k # "node" /\ rules[cur].node.k # "node"),
         NEW next, Pop(R, rules, next), arena' = arena, pratt' = NoCall
  PROVE  FamInv'
<1> DEFINE v == rules[cur].node
           E == rules[Below]
<1>1. IsSeq(rules) /\ Others(rules) /\ Spares(arena') /\ Covered(arena) /\ Kindred(arena)
  BY FamIs, ChainIs, GrownSame, OthersSame DEF FamRunning
<1>2. LET seed == Seed(rules, Chain, Height)
      IN  /\ seed \/ Sole(arena, Awaited, v)
          /\ ~seed /\ Under("expr") => Foreign(arena, v)
          /\ seed <=> Under("expr") /\ v = E.node
          /\ seed => v.k = "node"
          /\ ~Under("val") /\ (Under("expr") => Awaits(rules, Below))
  BY ValIs
<1>3. CASE status' # "run"
  <2>1. Height = 1 /\ result' = R.node /\ rules'[cur] = R
    BY <1>1, <1>3, PopsOver
  <2>2. cur = 1
    BY <2>1, FamIs DEF FamFrames
  <2>3. QED
    BY <1>1, <1>3, <2>1, <2>2, FamNext
<1>4. CASE status' = "run"
  <2> DEFINE Fs == Roots(arena, rules, Chain, Height - 1)
  <2>1. R.name = rules[cur].name
    OBVIOUS
  <2>2. /\ rules'[cur] = R /\ \A r \in DOMAIN rules \ {cur} : rules'[r] = rules[r]
        /\ Height > 1 /\ cur' = Below
        /\ Chain'[Height - 1] = Below /\ Len(Chain') = Height - 1
        /\ rules'[Below] = rules[Below] /\ FamBelow(arena', rules', Chain')
        /\ First(rules', Chain', Height - 1) = First(rules, Chain, Height - 1)
        /\ Roots(arena', rules', Chain', Height - 1) = Roots(arena, rules, Chain, Height - 1)
        /\ FamFrames(arena', rules', Chain') /\ FamAt(arena', rules', Chain', Height - 1)
    BY <1>1, <1>4, <2>1, PopsFam
  <2>3. /\ Awaited = Fs \cup (IF Awaits(rules, Below) THEN {Root(arena, E.node)} ELSE {})
        /\ E.name # "expr" => Awaited = Fs
    BY <2>2, AwaitedBelow
  <2>4. /\ Waits(arena, rules, Chain, Height - 1) /\ Pushed(arena, rules, Chain, Height - 1)
        /\ Chain[Height - 1] = Below /\ Chain[(Height - 1) + 1] = cur
        /\ \A nm : Under(nm) <=> E.name = nm
    BY <2>2, BelowWaits, LinesBelow DEF FamRunning
  <2>5. E.state = "close" /\ E.name \in {"expr", "paren"}
    <3>1. Under("expr") \/ Under("paren")
      BY <2>2, ValBelow DEF FamRunning, ValHolds, Under
    <3>2. QED
      BY <2>4, <3>1 DEF Waits
  <2>6. cur # 0 /\ R.name = "val"
    BY FamIs
  <2>7. CASE E.name = "expr"
    <3>1. E.child = cur /\ Under("expr")
      BY <2>4, <2>7 DEF Pushed
    <3>2. Awaits(rules', Below)
      BY <2>2, <2>6, <2>7, <3>1 DEF Awaits
    <3>3. ExprOwn(arena', rules', Chain', Height - 1, E.node)
      BY <2>2, <3>2 DEF FamAt
    <3>4. ASSUME R.node # E.node
          PROVE  Sole(arena', Fs \cup {Root(arena', E.node)}, R.node) /\ Foreign(arena', R.node)
      <4>1. CASE R.node.k # "node"
        BY <4>1 DEF Sole, Own, Foreign
      <4>2. CASE R.node.k = "node"
        <5>1. R.node = v
          BY <4>2
        <5>2. Sole(arena, Awaited, v) /\ Foreign(arena, v) /\ Awaits(rules, Below)
          BY <1>2, <3>1, <3>4, <5>1
        <5>3. Awaited = Fs \cup {Root(arena, E.node)}
          BY <2>3, <5>2
        <5>4. QED
          BY <5>1, <5>2, <5>3
      <4>3. QED
        BY <4>1, <4>2
    <3>5. FamClose(arena', rules', Chain', Height - 1)
      <4>1. rules'[Chain'[Height - 1]] = E /\ rules'[E.child] = R
        BY <2>2, <3>1
      <4>2. Awaits(rules', Chain'[Height - 1])
        BY <2>2, <3>2
      <4>3. QED
        BY <2>2, <3>3, <3>4, <4>1, <4>2 DEF FamClose
    <3>6. FamTop(arena', rules', Chain', t0', pratt')
      BY <2>2, <2>5, <2>7, <3>5 DEF FamTop
    <3>7. QED
      BY <1>1, <1>4, <2>2, <3>6, FamNext
  <2>8. CASE E.name = "paren"
    <3>1. E.child = cur
      BY <2>4, <2>8 DEF Pushed
    <3>2. Sole(arena', Fs, R.node)
      <4>1. CASE R.node.k # "node"
        BY <4>1 DEF Sole, Own
      <4>2. CASE R.node.k = "node"
        <5>1. R.node = v /\ ~Under("expr")
          BY <2>4, <2>8, <4>2
        <5>2. Sole(arena, Awaited, v)
          BY <1>2, <5>1
        <5>3. QED
          BY <2>3, <2>8, <5>1, <5>2
      <4>3. QED
        BY <4>1, <4>2
    <3>3. E.depth # {}
      BY <2>2, <2>8 DEF FamAt
    <3>4. FamParen(arena', rules', Chain', Height - 1)
      BY <2>2, <3>1, <3>2, <3>3 DEF FamParen
    <3>5. FamTop(arena', rules', Chain', t0', pratt')
      BY <2>2, <2>8, <3>4 DEF FamTop
    <3>6. QED
      BY <1>1, <1>4, <2>2, <3>5, FamNext
  <2>9. QED
    BY <2>5, <2>7, <2>8
<1>5. QED
  BY <1>3, <1>4

LEMMA ValClosePopFam ==
  ASSUME FamRunning, ValClosePop
  PROVE  FamInv'
<1>1. Passing("val", "close") /\ Pop(ValClosing, rules, t0) /\ arena' = arena /\ pratt' = pratt
  BY DEF ValClosePop
<1>2. pratt = NoCall
  BY <1>1, PassIs DEF FamRunning
<1>3. ValClosing.name = "val"
  BY <1>1, Coalesces DEF FamRunning
<1>4. /\ ValClosing.node = rules[cur].node
           \/ (ValClosing.node.k # "node" /\ rules[cur].node.k # "node")
      /\ rules[cur].name = "val" /\ rules[cur].state = "close"
  BY <1>1, FamCoalesces
<1>5. QED
  BY <1>1, <1>2, <1>3, <1>4, ValPopsFam

LEMMA ValCloseOperatorFam ==
  ASSUME FamRunning, ValCloseOperator
  PROVE  FamInv'
<1> DEFINE W == ValClosing
           R == IF ValCloseAlt(W) = "infix"
                THEN [W EXCEPT !.n.prefix = 0, !.n.suffix = 0]
                ELSE [W EXCEPT !.n.prefix = 0, !.n.suffix = @ + 1]
<1>1. /\ Passing("val", "close")
      /\ IF R.n.expr = 0 THEN Replace(R, "expr", rules) ELSE Pop(R, rules, t0)
      /\ arena' = arena /\ pratt' = pratt
  BY DEF ValCloseOperator
<1>2. pratt = NoCall
  BY <1>1, PassIs DEF FamRunning
<1>3. /\ Formed(W) /\ W.name = "val" /\ W.n = rules[cur].n /\ W.attach = Undefined
      /\ W.parent = rules[cur].parent
  BY <1>1, Coalesces DEF FamRunning
<1>4. /\ W.node = rules[cur].node \/ (W.node.k # "node" /\ rules[cur].node.k # "node")
      /\ rules[cur].name = "val" /\ rules[cur].state = "close"
  BY <1>1, FamCoalesces
<1>5. /\ Formed(R) /\ R.name = "val" /\ R.node = W.node /\ R.attach = W.attach
      /\ R.parent = W.parent /\ R.n.expr = W.n.expr
  BY <1>3 DEF Formed
<1> HIDE DEF R
<1>6. CASE R.n.expr = 0
  <2>1. Replace(R, "expr", rules)
    BY <1>1, <1>6
  <2>2. QED
    BY <1>1, <1>2, <1>3, <1>5, <1>6, <2>1, ValReplaceFam
<1>7. CASE R.n.expr # 0
  <2>1. Pop(R, rules, t0)
    BY <1>1, <1>7
  <2>2. R.node = rules[cur].node \/ (R.node.k # "node" /\ rules[cur].node.k # "node")
    BY <1>4, <1>5
  <2>3. QED
    BY <1>1, <1>2, <1>4, <1>5, <2>1, <2>2, ValPopsFam
<1>8. QED
  BY <1>6, <1>7

(***************************************************************************)
(* expr: opening.                                                          *)
(***************************************************************************)
LEMMA ExprOpenParenFam ==
  ASSUME FamRunning, ExprOpenParen
  PROVE  FamInv'
<1> DEFINE R == rules[cur]
           new == Len(rules) + 1
           S   == rules'[cur]
           N   == rules'[new]
<1>1. /\ Passing("expr", "open") /\ Push(R, "paren", rules) /\ arena' = arena /\ pratt' = pratt
  BY DEF ExprOpenParen
<1>2. R.name = "expr" /\ Formed(R) /\ R.name = rules[cur].name
  BY <1>1, PassIs DEF FamRunning
<1>3. IsSeq(rules) /\ Others(rules) /\ Spares(arena') /\ Covered(arena) /\ Kindred(arena)
  BY <1>1, FamIs, ChainIs, GrownSame, OthersSame DEF FamRunning
<1> HIDE DEF R
<1>4. /\ S.name = R.name
      /\ N.name = "paren" /\ N.state = "open"
      /\ Awaits(rules', cur) <=> R.name = "expr" /\ "paren" = "val"
      /\ cur' = new /\ status' = "run"
      /\ Chain'[Height] = cur /\ Chain'[Height + 1] = new /\ Len(Chain') = Height + 1
      /\ FamAt(arena', rules', Chain', Height) => FamFrames(arena', rules', Chain')
  BY <1>1, <1>2, <1>3, PushesFam
<1> HIDE DEF new, S, N
<1>5. FamAt(arena', rules', Chain', Height)
  BY <1>2, <1>4 DEF FamAt, S
<1>6. FamTop(arena', rules', Chain', t0', pratt')
  BY <1>4 DEF FamTop, FamParen, N
<1>7. QED
  BY <1>1, <1>3, <1>4, <1>5, <1>6, FamNext

LEMMA FamOpens ==
  ASSUME FamRunning, Passing("expr", "open")
  PROVE  FamOpen(arena, rules, Chain, Height, t0)
<1>1. rules[cur].name = "expr" /\ rules[cur].state = "open" /\ pratt = NoCall
  BY PassIs DEF FamRunning
<1>2. FamTop(arena, rules, Chain, t0, pratt) /\ Len(Chain) = Height /\ Chain[Height] = cur
  BY FamIs
<1>3. QED
  BY <1>1, <1>2 DEF FamTop

\* The alternate of a prefix.
LEMMA PrefixChosen ==
  ExprOpenAlt = "prefix" => t0 \in DOMAIN Prefix
<1> DEFINE alts == << << t0 \in ParenOpen, "paren" >>,
                      << t0 \in DOMAIN Prefix /\ rules[cur].n.prefix # 0, "prefix" >>,
                      << t0 \in DOMAIN Infix, "infix" >>,
                      << t0 \in DOMAIN Suffix, "suffix" >> >>
           prefix == t0 \in DOMAIN Prefix /\ rules[cur].n.prefix # 0
<1>1. ExprOpenAlt = FirstMatch(alts) /\ DOMAIN alts = 1..4
  BY DEF ExprOpenAlt
<1>2. /\ alts[1][2] = "paren" /\ alts[2][2] = "prefix" /\ alts[3][2] = "infix"
      /\ alts[4][2] = "suffix"
  OBVIOUS
<1>3. alts[2][1] <=> prefix
  BY Zenon
<1> HIDE DEF alts
<1>4. prefix => t0 \in DOMAIN Prefix
  OBVIOUS
<1> HIDE DEF prefix
<1>5. SUFFICES ASSUME FirstMatch(alts) = "prefix" PROVE prefix
  BY <1>1, <1>4
<1>6. PICK i \in 1..4 : alts[i][1] /\ FirstMatch(alts) = alts[i][2]
  BY <1>1, <1>5, FirstMatchHolds
<1>7. i \in {1, 2, 3, 4}
  BY <1>6
<1>8. QED
  BY <1>2, <1>3, <1>5, <1>6, <1>7

\* The expression an operator goes into.
LEMMA TargetOwn ==
  ASSUME FamRunning, Passing("expr", "open"), ExprOpenAlt \in DOMAIN Opening,
         EmbedTarget(rules[cur], ExprOpenAlt) # Undefined
  PROVE  LET E == rules[cur]
             v == EmbedTarget(E, ExprOpenAlt)
             f == Root(arena, v)
             u == Linked(rules, E.parent)
             w == Linked(rules, E.prev)
         IN  /\ v.k = "node" /\ Free(arena, f)
             /\ ExprOpenAlt = "prefix" =>
                  /\ Under("val") /\ v = rules[Below].node
                  /\ Above(rules, Chain, Height - 1, "expr") => Seed(rules, Chain, Height - 1)
             /\ ExprOpenAlt # "prefix" =>
                  /\ ~Under("val") /\ f \notin Awaited
                  /\ rules[First(rules, Chain, Height)].node = Handle(f)
                  /\ u.k = "node" => Root(arena, u) = f
                  /\ w.k = "node" => Root(arena, w) = f
<1> DEFINE E == rules[cur]
           v == EmbedTarget(E, ExprOpenAlt)
           f == Root(arena, v)
           u == Linked(rules, E.parent)
           w == Linked(rules, E.prev)
<1>1. /\ ExprOpenAlt = "prefix" => Under("val")
      /\ ExprOpenAlt # "prefix" => ~Under("val")
  BY ExprOpenPlace DEF FamRunning
<1>2. LinkedNode(E.parent) = u /\ LinkedNode(E.prev) = w /\ u \in Value /\ w \in Value
  <2>1. {E.parent, E.prev} \subseteq 0..Len(rules)
    BY ExprOpens DEF FamRunning
  <2>2. QED
    BY <2>1, LinkedIs DEF Running, FamRunning
<1>3. (IsOp(arena, u) <=> u.k = "node") /\ (IsOp(arena, w) <=> w.k = "node")
  BY <1>2, NodeLives
<1>4. FamOpen(arena, rules, Chain, Height, t0) /\ Chain[Height] = cur
  BY FamOpens, FamIs
<1>5. CASE ExprOpenAlt = "prefix"
  <2>1. v = u /\ IsOp(arena, u)
    BY <1>2, <1>5 DEF EmbedTarget, FoldTarget
  <2>2. v = rules[Below].node
    BY <1>5, TargetIs DEF FamRunning
  <2>3. t0 \in DOMAIN Prefix
    BY <1>5, PrefixChosen
  <2>4. /\ Above(rules, Chain, Height - 1, "expr") => Seed(rules, Chain, Height - 1)
        /\ rules[Below].node.k = "node" => Free(arena, Root(arena, rules[Below].node))
    BY <1>1, <1>4, <1>5, <2>3 DEF FamOpen, Below, Under
  <2>5. v.k = "node"
    BY <1>3, <2>1
  <2>6. QED
    BY <1>1, <1>5, <2>2, <2>4, <2>5
<1>6. CASE ExprOpenAlt # "prefix"
  <2>1. ~Under("val")
    BY <1>1, <1>6
  <2>2. /\ w.k = "node" => ExprOwn(arena, rules, Chain, Height, w)
        /\ w.k # "node" => u.k # "node"
    BY <1>4, <2>1 DEF FamOpen, Under
  <2>3. (v = u /\ u.k = "node") \/ (v = w /\ w.k = "node")
    <3>1. ExprOpenAlt \in {"infix", "suffix"}
      BY <1>6 DEF Opening
    <3>2. CASE ExprOpenAlt = "infix"
      BY <1>2, <1>3, <3>2 DEF EmbedTarget, SecondOperator, UnaryFirst
    <3>3. CASE ExprOpenAlt = "suffix"
      BY <1>2, <1>3, <3>3 DEF EmbedTarget
    <3>4. QED
      BY <3>1, <3>2, <3>3
  <2> HIDE DEF v
  <2>4. w.k = "node"
    BY <2>2, <2>3
  <2>5. /\ Free(arena, Root(arena, w)) /\ Root(arena, w) \notin Awaited
        /\ rules[First(rules, Chain, Height)].node = Handle(Root(arena, w))
        /\ u.k = "node" => Root(arena, u) = Root(arena, w)
    BY <1>4, <2>1, <2>2, <2>4 DEF ExprOwn, Tied, Awaited, Under
  <2>6. Root(arena, w) = f /\ v.k = "node"
    BY <2>3, <2>5
  <2>7. QED
    BY <1>6, <2>1, <2>5, <2>6 DEF v
<1>7. QED
  BY <1>5, <1>6

LEMMA ExprOpenEmbedFam ==
  ASSUME FamRunning, ExprOpenEmbed
  PROVE  FamInv'
<1> DEFINE kind   == ExprOpenAlt
           E      == rules[cur]
           target == EmbedTarget(E, kind)
           R      == IF kind = "infix" /\ UnaryFirst(E)
                     THEN [Counted(E, kind) EXCEPT !.parent = E.prev] ELSE Counted(E, kind)
           f == Root(arena, target)
<1>1. /\ Passing("expr", "open") /\ kind \in DOMAIN Opening /\ target # Undefined
      /\ pratt' = [kind |-> kind, op |-> OpUsed(kind), token |-> at,
                   root |-> target, expr |-> target]
      /\ rules' = [rules EXCEPT ![cur] = R]
      /\ arena' = arena /\ stack' = stack /\ cur' = cur /\ status' = status
  BY DEF ExprOpenEmbed
<1>2. E.name = "expr" /\ E.state = "open" /\ Formed(E) /\ status = "run"
  BY <1>1, PassIs DEF FamRunning, Running
<1>3. /\ R.name = "expr" /\ R.state = "open" /\ R.node = E.node
      /\ R.parent = E.parent \/ (kind = "infix" /\ R.parent = E.prev)
  <2>1. /\ Formed(Counted(E, kind)) /\ Counted(E, kind).name = "expr"
        /\ Counted(E, kind).state = "open" /\ Counted(E, kind).node = E.node
        /\ Counted(E, kind).parent = E.parent
    BY <1>2, CountedIs
  <2>2. CASE kind = "infix" /\ UnaryFirst(E)
    BY <2>1, <2>2 DEF Formed
  <2>3. CASE ~(kind = "infix" /\ UnaryFirst(E))
    BY <2>1, <2>3
  <2>4. QED
    BY <2>2, <2>3
<1> HIDE DEF R
<1>4. LET u == Linked(rules, E.parent)
          w == Linked(rules, E.prev)
      IN  /\ target.k = "node" /\ Free(arena, f)
          /\ kind = "prefix" =>
               /\ Under("val") /\ target = rules[Below].node
               /\ Above(rules, Chain, Height - 1, "expr") => Seed(rules, Chain, Height - 1)
          /\ kind # "prefix" =>
               /\ ~Under("val") /\ f \notin Awaited
               /\ rules[First(rules, Chain, Height)].node = Handle(f)
               /\ u.k = "node" => Root(arena, u) = f
               /\ w.k = "node" => Root(arena, w) = f
  BY <1>1, TargetOwn
<1> HIDE DEF target
<1>5. IsSeq(rules) /\ Others(rules) /\ Spares(arena') /\ Covered(arena) /\ Kindred(arena)
      /\ DOMAIN rules \subseteq Nat \ {0} /\ cur \in DOMAIN rules
  BY <1>1, FamIs, ChainIs, GrownSame, OthersSame DEF FamRunning
<1>6. R.name = rules[cur].name
  BY <1>2, <1>3
<1>7. /\ rules'[cur] = R /\ \A r \in DOMAIN rules \ {cur} : rules'[r] = rules[r]
      /\ FamBelow(arena', rules', Chain')
      /\ First(rules', Chain', Height) = First(rules, Chain, Height)
      /\ Chain'[Height] = cur /\ Len(Chain') = Height
      /\ FamFrames(arena', rules', Chain')
  BY <1>1, <1>5, <1>6, StaysFam
<1>8. /\ \A nm : Above(rules', Chain', Height, nm) <=> Under(nm)
      /\ \A nm : Above(rules', Chain', Height - 1, nm) <=> Above(rules, Chain, Height - 1, nm)
      /\ Seed(rules', Chain', Height - 1) <=> Seed(rules, Chain, Height - 1)
      /\ Roots(arena', rules', Chain', Height) = Awaited
      /\ Height > 1 => rules'[Below] = rules[Below] /\ Chain'[Height - 1] = Below
  BY <1>7 DEF FamBelow
<1>9. pratt'.kind = kind /\ pratt'.root = target /\ pratt'.expr = target
  BY <1>1
<1>10. pratt' # NoCall
  BY <1>1, <1>9 DEF NoCall, Opening
<1>11. ExprOwn(arena', rules', Chain', Height, target)
  <2>1. CASE kind = "prefix"
    <3>1. Under("val") /\ Height > 1
      BY <1>4, <2>1 DEF Under, Above
    <3>2. Root(arena', target) = Root(arena', rules'[Chain'[Height - 1]].node)
      BY <1>4, <1>8, <2>1, <3>1
    <3>3. Above(rules', Chain', Height - 1, "expr") => Seed(rules', Chain', Height - 1)
      BY <1>4, <1>8, <2>1
    <3>4. QED
      BY <1>1, <1>4, <1>8, <3>1, <3>2, <3>3 DEF ExprOwn
  <2>2. CASE kind # "prefix"
    <3>1. Tied(arena', rules', Chain', Height, f)
      <4>1. rules'[First(rules, Chain, Height)].node = rules[First(rules, Chain, Height)].node
        BY <1>3, <1>7, FirstIs
      <4>2. R.parent \in {E.parent, E.prev} /\ R.parent < cur /\ R.parent \in 0..Len(rules)
        <5>1. E.parent < cur /\ E.prev < cur
          BY <1>1, <2>2, ExprOpenPlace DEF FamRunning
        <5>2. {E.parent, E.prev} \subseteq 0..Len(rules)
          BY <1>1, ExprOpens DEF FamRunning
        <5>3. QED
          BY <1>3, <5>1, <5>2
      <4>3. Linked(rules', R.parent) = Linked(rules, R.parent)
        <5>1. R.parent = 0 \/ R.parent \in DOMAIN rules \ {cur}
          BY <4>2, ChainIs DEF FamRunning
        <5>2. QED
          BY <1>7, <5>1 DEF Linked
      <4>4. Linked(rules', R.parent).k = "node" => Root(arena', Linked(rules', R.parent)) = f
        BY <1>1, <1>4, <2>2, <4>2, <4>3
      <4>5. rules'[First(rules', Chain', Height)].node = Handle(f)
        BY <1>4, <1>7, <2>2, <4>1
      <4>6. QED
        BY <1>7, <4>4, <4>5 DEF Tied
    <3>2. QED
      BY <1>1, <1>4, <1>8, <2>2, <3>1 DEF ExprOwn
  <2>3. QED
    BY <2>1, <2>2
<1>12. FamCall(arena', rules', Chain', Height, pratt')
  BY <1>9, <1>11 DEF FamCall
<1>13. FamTop(arena', rules', Chain', t0', pratt')
  BY <1>3, <1>7, <1>10, <1>12 DEF FamTop
<1>14. QED
  BY <1>1, <1>2, <1>5, <1>7, <1>13, FamNext

\* The rule of an expr's first term is not the expr.
LEMMA FirstApart ==
  ASSUME FamRunning, rules[cur].name = "expr", ~Under("val")
  PROVE  First(rules, Chain, Height) # cur
<1>1. Height \in Nat \ {0} /\ Chain[Height] = cur /\ Frames(arena, rules, Chain) /\ Len(Chain) = Height
  BY FamIs
<1>2. CASE Height = 1
  BY <1>2, RuleOne DEF First
<1>3. CASE Height # 1
  <2>1. Height > 1 /\ Height - 1 \in 1..(Height - 1)
    BY <1>1, <1>3
  <2>2. First(rules, Chain, Height) = rules[Below].child /\ Chain[Height - 1] = Below
    BY <2>1, FirstIs DEF Below
  <2>3. /\ Waits(arena, rules, Chain, Height - 1) /\ Pushed(arena, rules, Chain, Height - 1)
        /\ Chain[(Height - 1) + 1] = cur
    BY <1>1, <2>1 DEF Frames
  <2>4. rules[Below].name = "paren"
    <3>1. ~Under("expr")
      BY ExprBelow DEF FamRunning
    <3>2. rules[Below].name # "val" /\ rules[Below].name # "expr"
      BY <2>1, <3>1 DEF Under, Above, Below
    <3>3. QED
      BY <2>2, <2>3, <3>2 DEF Waits, Awaits
  <2>5. rules[Below].child < cur
    BY <2>2, <2>3, <2>4 DEF Pushed
  <2>6. cur \in Nat
    BY FamIs
  <2>7. QED
    BY <2>2, <2>5, <2>6
<1>4. QED
  BY <1>2, <1>3

\* An operator has found its place.
LEMMA PublishFam ==
  ASSUME FamRunning, rules[cur].name = "expr", NEW R, Formed(R), R.name = "expr", R.child = 0,
         NEW kind, NEW attach, attach.k = "node",
         NEW others, IsSeq(others), DOMAIN others = DOMAIN rules, Others(others),
         Publish(R, kind, attach, others), pratt' = NoCall, Spares(arena'),
         Free(arena', Root(arena', attach)),
         Under("val") => /\ Root(arena', attach) = Root(arena', rules[Below].node)
                         /\ Above(rules, Chain, Height - 1, "expr") => Seed(rules, Chain, Height - 1),
         ~Under("val") =>
           /\ Root(arena', attach) \notin Awaited
           /\ others[First(rules, Chain, Height)].node = Handle(Root(arena', attach))
           /\ R.parent < cur /\ R.parent \in DOMAIN rules \cup {0}
           /\ Linked(others, R.parent).k = "node" =>
                Root(arena', Linked(others, R.parent)) = Root(arena', attach)
  PROVE  FamInv'
<1> DEFINE P == [R EXCEPT !.node = attach, !.attach = attach]
           S == [P EXCEPT !.state = "close"]
           f == Root(arena', attach)
           first == First(rules, Chain, Height)
<1>1. IF kind = "suffix" THEN Stay(P, others) ELSE Push(P, "val", others)
  BY DEF Publish
<1>2. /\ Formed(P) /\ P.name = "expr" /\ P.node = attach /\ P.attach = attach
      /\ P.parent = R.parent /\ P.child = 0
  BY DEF Formed
<1>3. /\ S.name = "expr" /\ S.state = "close" /\ S.node = attach /\ S.attach = attach
      /\ S.parent = R.parent /\ S.child = 0
  BY DEF Formed
<1> HIDE DEF P, S
<1>4. /\ Covered(arena') /\ Kindred(arena') /\ status = "run"
      /\ cur \in DOMAIN rules /\ DOMAIN rules \subseteq Nat \ {0} /\ Height \in Nat \ {0}
  BY FamIs DEF Spares, FamRunning, Running
<1>5. ~Under("val") => first # cur /\ first \in DOMAIN rules
  BY FirstApart, FirstIs
<1>6. ASSUME NEW qs, NEW dh, NEW T, FamBelow(arena', qs, dh), dh[Height] = cur, qs[cur] = T,
             T.node = attach, T.parent = R.parent,
             \A r \in DOMAIN rules \ {cur} : qs[r] = others[r],
             First(qs, dh, Height) = first
      PROVE  ExprOwn(arena', qs, dh, Height, attach)
  <2>1. /\ Above(qs, dh, Height, "val") <=> Under("val")
        /\ Above(qs, dh, Height - 1, "expr") <=> Above(rules, Chain, Height - 1, "expr")
        /\ Seed(qs, dh, Height - 1) <=> Seed(rules, Chain, Height - 1)
        /\ Roots(arena', qs, dh, Height) = Awaited
        /\ Height > 1 => qs[Below] = rules[Below] /\ dh[Height - 1] = Below
    BY <1>6 DEF FamBelow
  <2>2. CASE Under("val")
    <3>1. Height > 1
      BY <2>2 DEF Under, Above
    <3>2. QED
      BY <2>1, <2>2, <3>1 DEF ExprOwn
  <2>3. CASE ~Under("val")
    <3>1. Linked(qs, R.parent) = Linked(others, R.parent)
      <4>1. R.parent = 0 \/ R.parent \in DOMAIN rules \ {cur}
        BY <1>4, <2>3
      <4>2. QED
        BY <1>6, <4>1 DEF Linked
    <3>2. qs[first].node = Handle(f)
      BY <1>5, <1>6, <2>3
    <3>3. Tied(arena', qs, dh, Height, f)
      BY <1>6, <2>3, <3>1, <3>2 DEF Tied
    <3>4. QED
      BY <2>1, <2>3, <3>3 DEF ExprOwn
  <2>4. QED
    BY <2>2, <2>3
<1> HIDE DEF f, first
<1>7. CASE kind # "suffix"
  <2>1. Push(P, "val", others)
    BY <1>1, <1>7
  <2> DEFINE new == Len(rules) + 1
             T == rules'[cur]
             N == rules'[new]
  <2>2. P.name = rules[cur].name
    BY <1>2
  <2>3. /\ T.name = P.name /\ T.node = P.node /\ T.parent = P.parent
        /\ N.name = "val" /\ N.state = "open" /\ N.node = P.node
        /\ \A r \in DOMAIN rules \ {cur} : rules'[r] = others[r]
        /\ FamBelow(arena', rules', Chain')
        /\ Seed(rules', Chain', Height + 1) <=> P.name = "expr"
        /\ Awaits(rules', cur) <=> P.name = "expr" /\ "val" = "val"
        /\ First(rules', Chain', Height) = First(rules, Chain, Height)
        /\ cur' = new /\ status' = "run"
        /\ Chain'[Height] = cur /\ Chain'[Height + 1] = new /\ Len(Chain') = Height + 1
        /\ FamAt(arena', rules', Chain', Height) => FamFrames(arena', rules', Chain')
    BY <1>2, <2>1, <2>2, PushesFam
  <2> HIDE DEF new, T, N
  <2>4. ExprOwn(arena', rules', Chain', Height, attach)
    <3>1. T.node = attach /\ T.parent = R.parent
      BY <1>2, <2>3
    <3>2. QED
      BY <1>6, <2>3, <3>1 DEF T, first
  <2>5. FamAt(arena', rules', Chain', Height)
    BY <1>2, <2>3, <2>4 DEF FamAt, T
  <2>6. FamVal(arena', rules', Chain', Height + 1)
    BY <1>2, <2>3 DEF FamVal, N
  <2>7. FamTop(arena', rules', Chain', t0', pratt')
    BY <2>3, <2>6 DEF FamTop, N
  <2>8. QED
    BY <1>4, <2>3, <2>5, <2>7, FamNext
<1>8. CASE kind = "suffix"
  <2>1. rules' = [others EXCEPT ![cur] = S] /\ cur' = cur /\ stack' = stack /\ status' = status
    BY <1>1, <1>8 DEF Stay, S
  <2>2. S.name = rules[cur].name
    BY <1>3
  <2>3. /\ rules'[cur] = S /\ \A r \in DOMAIN rules \ {cur} : rules'[r] = others[r]
        /\ FamBelow(arena', rules', Chain')
        /\ First(rules', Chain', Height) = First(rules, Chain, Height)
        /\ Chain'[Height] = cur /\ Len(Chain') = Height
        /\ FamFrames(arena', rules', Chain')
    BY <2>1, <2>2, StaysFam
  <2>4. ExprOwn(arena', rules', Chain', Height, attach)
    BY <1>3, <1>6, <2>3 DEF first
  <2>5. ~Awaits(rules', cur)
    BY <1>3, <2>3 DEF Awaits
  <2>6. FamClose(arena', rules', Chain', Height)
    BY <1>3, <2>3, <2>4, <2>5 DEF FamClose
  <2>7. FamTop(arena', rules', Chain', t0', pratt')
    BY <1>3, <2>3, <2>6 DEF FamTop
  <2>8. QED
    BY <1>4, <2>1, <2>3, <2>7, FamNext
<1>9. QED
  BY <1>7, <1>8

(***************************************************************************)
(* prattify.                                                               *)
(***************************************************************************)
LEMMA CallOwn ==
  ASSUME FamRunning, Pratting
  PROVE  LET f == Root(arena, pratt.root)
         IN  /\ Root(arena, pratt.expr) = f /\ Free(arena, f) /\ f \in DOMAIN arena.nodes
             /\ Under("val") => /\ f = Root(arena, rules[Below].node)
                                /\ Above(rules, Chain, Height - 1, "expr") => Seed(rules, Chain, Height - 1)
             /\ ~Under("val") =>
                  /\ f \notin Awaited /\ rules[First(rules, Chain, Height)].node = Handle(f)
                  /\ Linked(rules, rules[cur].parent).k = "node" =>
                       Root(arena, Linked(rules, rules[cur].parent)) = f
<1> DEFINE f == Root(arena, pratt.root)
<1>1. /\ rules[cur].name = "expr" /\ rules[cur].state = "open" /\ Chain[Height] = cur
      /\ Live(arena, pratt.expr) /\ Sound(arena) /\ pratt # NoCall
  BY CallIs DEF FamRunning, Pratting
<1>2. FamCall(arena, rules, Chain, Height, pratt)
  <2>1. FamTop(arena, rules, Chain, t0, pratt) /\ Len(Chain) = Height
    BY FamIs
  <2>2. QED
    BY <1>1, <2>1 DEF FamTop
<1>3. ExprOwn(arena, rules, Chain, Height, pratt.root) /\ Root(arena, pratt.expr) = f
  BY <1>2 DEF FamCall
<1>4. f \in DOMAIN arena.nodes
  BY <1>1, <1>3, Sizes DEF Root, Live
<1> HIDE DEF f
<1>5. Free(arena, f)
  BY <1>3 DEF ExprOwn, f
<1>6. CASE Under("val")
  BY <1>3, <1>4, <1>5, <1>6 DEF ExprOwn, Under, Below, f
<1>7. CASE ~Under("val")
  BY <1>1, <1>3, <1>4, <1>5, <1>7 DEF ExprOwn, Tied, Under, Awaited, f
<1>8. QED
  BY <1>6, <1>7

LEMMA ReturnFam ==
  ASSUME FamRunning, Pratting, NEW attach, attach.k = "node", pratt' = NoCall,
         Root(arena', attach) = Root(arena, pratt.root),
         Publish(rules[cur], pratt.kind, attach, rules),
         Extends(arena, arena'), Grown(arena, arena', {})
  PROVE  FamInv'
<1> DEFINE f == Root(arena, pratt.root)
           R == rules[cur]
           u == Linked(rules, R.parent)
<1>1. /\ R.name = "expr" /\ Formed(R) /\ R.child = 0 /\ R.parent \in DOMAIN rules \cup {0}
      /\ ~Under("val") => R.parent < cur
  BY CallIs DEF FamRunning
<1>2. /\ Free(arena, f) /\ f \in DOMAIN arena.nodes
      /\ Under("val") => /\ f = Root(arena, rules[Below].node)
                         /\ Above(rules, Chain, Height - 1, "expr") => Seed(rules, Chain, Height - 1)
      /\ ~Under("val") =>
           /\ f \notin Awaited /\ rules[First(rules, Chain, Height)].node = Handle(f)
           /\ u.k = "node" => Root(arena, u) = f
  BY CallOwn
<1>3. Spares(arena') /\ Free(arena', f)
  <2>1. \A x \in {} : x \notin Awaited
    OBVIOUS
  <2>2. Spares(arena')
    BY <2>1, SparesIs
  <2>3. f \in DOMAIN arena.nodes \ {}
    BY <1>2
  <2>4. QED
    BY <1>2, <2>2, <2>3 DEF Grown
<1>4. \A v \in Value : v.k = "node" => Root(arena', v) = Root(arena, v)
  BY DEF Extends, Root, Value, Values
<1>5. u \in Value
  <2>1. R.parent \in 0..Len(rules)
    BY <1>1, ChainIs DEF FamRunning
  <2>2. QED
    BY <2>1, LinkedIs DEF FamRunning, Running
<1>6. Under("val") => Root(arena', rules[Below].node) = f
  <2>1. ASSUME Under("val") PROVE rules[Below].node \in Value /\ rules[Below].node.k = "node"
    <3>1. Height > 1
      BY <2>1 DEF Under, Above
    <3>2. Below \in DOMAIN rules
      BY <3>1, LinesBelow DEF FamRunning
    <3>3. rules[Below].node \in Value
      BY <3>2, ChainIs, Fields DEF FamRunning
    <3>4. pratt.root = rules[Below].node /\ pratt.root.k = "node"
      BY <2>1, CallIs DEF FamRunning
    <3>5. QED
      BY <3>3, <3>4
  <2>2. QED
    BY <1>2, <1>4, <2>1
<1>7. IsSeq(rules) /\ Others(rules)
  BY ChainIs, OthersSame DEF FamRunning
<1> HIDE DEF f, R, u
<1>8. Root(arena', attach) = f
  BY DEF f
<1>9. /\ Free(arena', Root(arena', attach))
      /\ Under("val") => /\ Root(arena', attach) = Root(arena', rules[Below].node)
                         /\ Above(rules, Chain, Height - 1, "expr") => Seed(rules, Chain, Height - 1)
      /\ ~Under("val") =>
           /\ Root(arena', attach) \notin Awaited
           /\ rules[First(rules, Chain, Height)].node = Handle(Root(arena', attach))
           /\ R.parent < cur /\ R.parent \in DOMAIN rules \cup {0}
           /\ Linked(rules, R.parent).k = "node" =>
                Root(arena', Linked(rules, R.parent)) = Root(arena', attach)
  BY <1>1, <1>2, <1>3, <1>4, <1>5, <1>6, <1>8 DEF u
<1>10. rules[cur].name = "expr" /\ Publish(R, pratt.kind, attach, rules)
  BY <1>1 DEF R
<1>11. QED
  BY <1>1, <1>3, <1>7, <1>9, <1>10, PublishFam

\* What an operator leaves below it.
LEMMA PlaceIs ==
  ASSUME FamRunning, Pratting
  PROVE  /\ pratt.op \in OperandOps /\ pratt.op.kind = pratt.kind
         /\ OpOf(arena, pratt.expr) \in BracketOps \cup OperandOps
         /\ arena.nodes[pratt.expr.id].op = OpOf(arena, pratt.expr)
         /\ pratt.kind # "prefix" /\ ~PrattLoosens => InExpr.kind \notin Brackets
<1>1. /\ pratt # NoCall /\ pratt.op \in OperandOps /\ pratt.op.kind = pratt.kind
      /\ pratt.kind \in DOMAIN Opening /\ Live(arena, pratt.expr) /\ FromTable(arena)
  BY DEF FamRunning, Pratting, Running, TypeInv, PrattInv, CallOK
<1>2. arena.nodes[pratt.expr.id].op = OpOf(arena, pratt.expr)
  BY <1>1 DEF OpOf
<1>3. OpOf(arena, pratt.expr) \in BracketOps \cup OperandOps
  BY <1>1, <1>2 DEF FromTable, Live
<1>4. ASSUME pratt.kind # "prefix", ~PrattLoosens PROVE InExpr.kind \notin Brackets
  <2>1. CASE InExpr \in OperandOps
    BY <2>1, OperandPower
  <2>2. CASE InExpr \in BracketOps
    <3>1. InExpr.right = MaxPower
      BY <2>2, BracketPower
    <3>2. /\ pratt.op.left \in Int /\ pratt.op.left <= MaxPower
          /\ pratt.kind = "suffix" => pratt.op.left < MaxPower
      BY <1>1, OperandPower DEF FamRunning
    <3>3. pratt.kind \in {"infix", "suffix"}
      BY <1>1, <1>4 DEF Opening
    <3>4. MaxPower \in Int
      BY PowersAssumption
    <3>5. pratt.kind = "suffix" => MaxPower > pratt.op.left
      BY <3>2, <3>4
    <3>6. QED
      BY <1>4, <3>1, <3>2, <3>3, <3>5 DEF PrattLoosens
  <2>3. QED
    BY <1>3, <2>1, <2>2 DEF InExpr
<1>5. QED
  BY <1>1, <1>2, <1>3, <1>4

LEMMA PrattLooserFam ==
  ASSUME FamRunning, PrattLooser
  PROVE  FamInv'
<1> DEFINE attach == IF pratt.kind = "suffix" THEN pratt.root ELSE pratt.expr
<1>1. /\ Pratting /\ arena' = Wrap(arena, pratt.expr, pratt.op, pratt.token)
      /\ Publish(rules[cur], pratt.kind, attach, rules) /\ pratt' = NoCall
  BY DEF PrattLooser, PrattReturn
<1>2. /\ Live(arena, pratt.expr) /\ Sound(arena) /\ Closed(arena)
      /\ pratt.root.k = "node" /\ pratt.expr.k = "node"
  BY <1>1, CallIs DEF FamRunning
<1>3. Root(arena, pratt.expr) = Root(arena, pratt.root) /\ Free(arena, Root(arena, pratt.expr))
  BY <1>1, CallOwn
<1>4. Covered(arena) /\ Kindred(arena)
  BY FamIs
<1>5. Grown(arena, arena', {}) /\ Extends(arena, arena')
  BY <1>1, <1>2, <1>3, <1>4, WrapFam
<1>6. attach.k = "node" /\ Root(arena', attach) = Root(arena, pratt.root)
  <2>1. pratt.root \in Value
    BY <1>1 DEF FamRunning, Running, TypeInv, Typed, CallTyped, Pratting
  <2>2. Root(arena', pratt.root) = Root(arena, pratt.root)
    BY <1>2, <1>5, <2>1 DEF Extends, Root, Value, Values
  <2>3. Root(arena', pratt.expr) = Root(arena, pratt.expr)
    BY <1>2, <1>5 DEF Extends, Root, Live
  <2>4. QED
    BY <1>2, <1>3, <2>2, <2>3
<1> HIDE DEF attach
<1>7. QED
  BY <1>1, <1>5, <1>6, ReturnFam

LEMMA PrattTighterFam ==
  ASSUME FamRunning, PrattTighter
  PROVE  FamInv'
<1> DEFINE last   == TermAt(arena, pratt.expr, LastPos)
           b      == NewNodeUnder(arena, pratt.op, pratt.token, <<last>>, pratt.expr)
           out    == Newest(b)
           attach == IF pratt.kind = "suffix" THEN pratt.root ELSE out
<1>1. /\ Pratting /\ pratt.kind # "prefix" /\ ~PrattLoosens
      /\ arena' = SetTerm(b, pratt.expr, LastPos, out)
      /\ Publish(rules[cur], pratt.kind, attach, rules) /\ pratt' = NoCall
  BY DEF PrattTighter, PrattReturn
<1>2. /\ Live(arena, pratt.expr) /\ Sound(arena) /\ Closed(arena)
      /\ pratt.root.k = "node" /\ pratt.expr.k = "node"
      /\ arena.nodes[pratt.expr.id].terms \in Seq(Value) /\ LastPos \in Nat \ {0}
  BY <1>1, CallIs DEF FamRunning
<1>3. Root(arena, pratt.expr) = Root(arena, pratt.root) /\ Free(arena, Root(arena, pratt.expr))
  BY <1>1, CallOwn
<1>4. Covered(arena) /\ Kindred(arena)
  BY FamIs
<1>5. arena.nodes[pratt.expr.id].op.kind \notin Brackets
  BY <1>1, PlaceIs DEF InExpr
<1>6. /\ Grown(arena, arena', {}) /\ Extends(arena, arena')
      /\ Root(arena', out) = Root(arena, pratt.expr)
  BY <1>1, <1>2, <1>3, <1>4, <1>5, BelowFam
<1>7. out.k = "node"
  BY DEF Newest, Handle
<1> HIDE DEF out
<1>8. attach.k = "node" /\ Root(arena', attach) = Root(arena, pratt.root)
  <2>1. pratt.root \in Value
    BY <1>1 DEF FamRunning, Running, TypeInv, Typed, CallTyped, Pratting
  <2>2. Root(arena', pratt.root) = Root(arena, pratt.root)
    BY <1>2, <1>6, <2>1 DEF Extends, Root, Value, Values
  <2>3. QED
    BY <1>2, <1>3, <1>6, <1>7, <2>2
<1> HIDE DEF attach
<1>9. QED
  BY <1>1, <1>6, <1>8, ReturnFam

LEMMA PrattPrefixFam ==
  ASSUME FamRunning, PrattPrefix
  PROVE  FamInv'
<1> DEFINE b   == NewNodeUnder(arena, pratt.op, pratt.token, << >>, pratt.expr)
           out == Newest(b)
<1>1. /\ Pratting /\ pratt.kind = "prefix" /\ arena' = SetTerm(b, pratt.expr, LastPos, out)
      /\ Publish(rules[cur], pratt.kind, out, rules) /\ pratt' = NoCall
  BY DEF PrattPrefix, PrattReturn
<1>2. /\ Live(arena, pratt.expr) /\ Sound(arena) /\ Closed(arena)
      /\ pratt.root.k = "node" /\ pratt.expr.k = "node"
      /\ arena.nodes[pratt.expr.id].terms \in Seq(Value) /\ LastPos \in Nat \ {0}
  BY <1>1, CallIs DEF FamRunning
<1>3. Root(arena, pratt.expr) = Root(arena, pratt.root) /\ Free(arena, Root(arena, pratt.expr))
  BY <1>1, CallOwn
<1>4. Covered(arena) /\ Kindred(arena)
  BY FamIs
<1>5. /\ Grown(arena, arena', {}) /\ Extends(arena, arena')
      /\ Root(arena', out) = Root(arena, pratt.expr)
  BY <1>1, <1>2, <1>3, <1>4, BelowFam
<1>6. out.k = "node"
  BY DEF Newest, Handle
<1> HIDE DEF out
<1>7. Root(arena', out) = Root(arena, pratt.root)
  BY <1>3, <1>5
<1>8. QED
  BY <1>1, <1>5, <1>6, <1>7, ReturnFam

\* Down into the last term, which is of the same expression.
LEMMA PrattDrillFam ==
  ASSUME FamRunning, PrattDrill
  PROVE  FamInv'
<1> DEFINE last == TermAt(arena, pratt.expr, LastPos)
           v    == pratt.expr
<1>1. /\ Pratting /\ PrattDrills /\ pratt' = [pratt EXCEPT !.expr = last]
      /\ UNCHANGED <<input, at, arena, rules, stack, cur, status, result>>
  BY DEF PrattDrill
<1>2. /\ pratt.kind # "prefix" /\ ~PrattLoosens /\ IsOp(arena, last)
      /\ pratt.kind = "infix" \/ LastOp.kind = "prefix"
      /\ LastOp.right < pratt.op.left
  BY <1>1 DEF PrattDrills
<1>3. /\ rules[cur].name = "expr" /\ rules[cur].state = "open"
      /\ Live(arena, v) /\ Sound(arena) /\ Closed(arena) /\ pratt.kind \in DOMAIN Opening
      /\ v.k = "node"
  BY <1>1, CallIs DEF FamRunning
<1>4. /\ pratt # NoCall /\ pratt = [kind |-> pratt.kind, op |-> pratt.op, token |-> pratt.token,
                                    root |-> pratt.root, expr |-> pratt.expr]
  BY <1>1 DEF Pratting, FamRunning, Running, TypeInv, PrattInv, CallOK
<1>5. /\ pratt.op \in OperandOps /\ InExpr.kind \notin Brackets
      /\ pratt.op.kind = pratt.kind /\ arena.nodes[v.id].op = InExpr
  BY <1>1, <1>2, PlaceIs DEF InExpr
<1>6. /\ Live(arena, last) /\ last.k = "node" /\ last.id \in DOMAIN arena.nodes
      /\ arena.nodes[last.id].op = LastOp /\ LastOp \in BracketOps \cup OperandOps
  <2>1. Live(arena, last) /\ FromTable(arena)
    BY <1>2 DEF IsOp, FamRunning, Running, TypeInv, PrattInv
  <2>2. arena.nodes[last.id].op = LastOp
    BY <2>1 DEF LastOp, OpOf
  <2>3. QED
    BY <2>1, <2>2 DEF FromTable, Live
<1>7. LastOp.kind \notin Brackets
  <2>1. CASE LastOp.kind = "prefix"
    BY <2>1 DEF Brackets
  <2>2. CASE LastOp \in OperandOps
    BY <2>2, OperandPower
  <2>3. CASE LastOp \in BracketOps /\ pratt.kind = "infix"
    <3>1. LastOp.right = MaxPower /\ MaxPower \in Int
      BY <2>3, BracketPower, PowersAssumption
    <3>2. pratt.op.left \in Int /\ pratt.op.left <= MaxPower
      BY <1>5, OperandPower
    <3>3. QED
      BY <1>2, <3>1, <3>2
  <2>4. QED
    BY <1>2, <1>6, <2>1, <2>2, <2>3
<1>8. last.id \in Held(arena, v.id) /\ v.id \in DOMAIN arena.nodes
  <2>1. v.id \in DOMAIN arena.nodes
    BY <1>3 DEF Live
  <2>2. Terms(arena, v) = arena.nodes[v.id].terms
    BY <1>3 DEF Terms
  <2>3. LastPos \in DOMAIN arena.nodes[v.id].terms /\ last = arena.nodes[v.id].terms[LastPos]
    BY <1>6, <2>2 DEF TermAt, Undefined
  <2> HIDE DEF last, v
  <2>4. SameNode(arena.nodes[v.id].terms[LastPos], Handle(last.id))
    BY <1>6, <2>3 DEF SameNode, Handle
  <2>5. QED
    BY <1>6, <2>1, <2>3, <2>4 DEF Held
<1>9. Root(arena, last) = Root(arena, v)
  <2>1. Kindred(arena)
    BY FamIs
  <2>2. QED
    BY <1>5, <1>6, <1>7, <1>8, <2>1 DEF Kindred, Root
<1> HIDE DEF last
<1>10. pratt'.kind = pratt.kind /\ pratt'.root = pratt.root /\ pratt'.expr = last
  BY <1>1, <1>4
<1>11. pratt' # NoCall
  <2>1. pratt.kind # "none"
    BY <1>3 DEF Opening
  <2>2. QED
    BY <1>10, <2>1 DEF NoCall
<1>12. /\ Chain' = Chain /\ Len(Chain) = Height /\ Chain[Height] = cur /\ status' = "run"
       /\ FamTop(arena, rules, Chain, t0, pratt) /\ FamFrames(arena, rules, Chain)
       /\ Covered(arena) /\ Kindred(arena)
  <2>1. Chain' = Chain
    BY <1>1 DEF Chain
  <2>2. status' = "run"
    BY <1>1 DEF FamRunning, Running
  <2>3. QED
    BY <2>1, <2>2, FamIs
<1>13. FamCall(arena, rules, Chain, Height, pratt)
  BY <1>3, <1>4, <1>12 DEF FamTop
<1>14. FamCall(arena, rules, Chain, Height, pratt')
  BY <1>9, <1>10, <1>13 DEF FamCall
<1>15. FamTop(arena, rules, Chain, t0', pratt')
  BY <1>3, <1>11, <1>12, <1>14 DEF FamTop
<1>16. FamTop(arena', rules', Chain', t0', pratt') /\ FamFrames(arena', rules', Chain')
       /\ Covered(arena') /\ Kindred(arena') /\ status' # "done"
  BY <1>1, <1>12, <1>15
<1>17. QED
  BY <1>16, FamNext

\* An operator that starts an expression: a prefix in a val with none to go
\* into, any other after the first term.
LEMMA PriorPlace ==
  ASSUME FamRunning, Passing("expr", "open"), ExprOpenAlt \in DOMAIN Opening,
         EmbedTarget(rules[cur], ExprOpenAlt) = Undefined
  PROVE  /\ ExprOpenAlt = "prefix" => ~Above(rules, Chain, Height - 1, "expr")
         /\ ExprOpenAlt # "prefix" => /\ rules[cur].prev = First(rules, Chain, Height)
                                      /\ Height > 1 => rules[cur].prev > Below
<1> DEFINE E == rules[cur]
           j == Height - 2
           v == rules[Below].node
<1>1. FamOpen(arena, rules, Chain, Height, t0) /\ Chain[Height] = cur /\ Height \in Nat \ {0}
      /\ Len(Chain) = Height
  BY FamOpens, FamIs
<1>2. ASSUME ExprOpenAlt = "prefix", Above(rules, Chain, Height - 1, "expr")
      PROVE  FALSE
  <2>1. Under("val") /\ E.parent = Below /\ t0 \in DOMAIN Prefix /\ Linked(rules, Below) = v
        /\ rules[Below].name = "val"
    <3>1. Under("val")
      BY <1>2, ExprOpenPlace DEF FamRunning
    <3>2. QED
      BY <1>2, <3>1, PrefixChosen, SeedBelow DEF FamRunning
  <2>2. Seed(rules, Chain, Height - 1)
    BY <1>1, <1>2, <2>1 DEF FamOpen, Under
  <2>3. j \in Nat \ {0} /\ j \in 1..(Height - 1) /\ (Height - 1) - 1 = j /\ j + 1 = Height - 1
        /\ j \in 1..(Len(Chain) - 1) /\ Height > 1
    BY <1>1, <1>2 DEF Above
  <2>4. rules[Chain[j]].name = "expr" /\ v = rules[Chain[j]].node
    BY <2>2, <2>3 DEF Above, Seed, Below
  <2>5. Awaits(rules, Chain[j])
    <3>1. Pushed(arena, rules, Chain, j)
      BY <2>3, FamIs DEF Frames
    <3>2. rules[Chain[j]].child = Below
      BY <2>3, <2>4, <3>1 DEF Pushed, Below
    <3>3. Below # 0
      BY <2>3, LinesBelow, FamIs DEF FamRunning
    <3>4. QED
      BY <2>1, <2>4, <3>2, <3>3 DEF Awaits
  <2>6. Firm(arena, v)
    BY <2>3, <2>4, <2>5, LinesAre DEF FamRunning
  <2>7. LinkedNode(E.parent) = v
    <3>1. Below \in 0..Len(rules)
      BY <2>3, LinesBelow, ChainIs DEF FamRunning
    <3>2. QED
      BY <2>1, <3>1, LinkedIs DEF FamRunning, Running
  <2> HIDE DEF v
  <2>8. IsOp(arena, v) /\ ~IsKind(arena, v, "ternary") /\ ~IsKind(arena, v, "paren")
    BY <2>6 DEF Firm, IsOp, IsKind, OpOf
  <2>9. FoldTarget(E) = v
    BY <2>7, <2>8 DEF FoldTarget
  <2>10. v # Undefined
    BY <2>8 DEF IsOp, Live, Undefined
  <2>11. QED
    BY <1>2, <2>9, <2>10 DEF EmbedTarget
<1>3. ASSUME ExprOpenAlt # "prefix"
      PROVE  E.prev = First(rules, Chain, Height) /\ (Height > 1 => E.prev > Below)
  <2>1. /\ ~Under("val") /\ E.prev \in DOMAIN rules /\ E.prev # 0
        /\ rules[E.prev].name = "val" /\ NodeOf(E.prev).k # "node"
    BY <1>3, PriorIs DEF FamRunning
  <2>2. Linked(rules, E.prev).k # "node"
    <3>1. rules[E.prev].attach = Undefined
      BY <2>1, ChainIs, Fields DEF FamRunning
    <3>2. QED
      BY <2>1, <3>1 DEF Linked, NodeOf, Undefined
  <2>3. QED
    BY <1>1, <2>1, <2>2 DEF FamOpen, Under, Below
<1>4. QED
  BY <1>2, <1>3

\* An operator that has the value before it for its first term.
LEMMA InfixPriorFam ==
  ASSUME FamRunning, ExprOpenPrior, ExprOpenAlt # "prefix"
  PROVE  FamInv'
<1> DEFINE kind  == ExprOpenAlt
           E     == rules[cur]
           prior == E.prev
           value == NodeOf(prior)
           new   == Len(arena.nodes) + 1
           node  == Handle(new)
           R     == [Counted(E, kind) EXCEPT !.parent = prior]
           others == [rules EXCEPT ![prior].node = node]
           first == First(rules, Chain, Height)
<1>1. /\ Passing("expr", "open") /\ kind \in DOMAIN Opening /\ EmbedTarget(E, kind) = Undefined
  BY DEF ExprOpenPrior
<1>2. /\ E.name = "expr" /\ Formed(E) /\ pratt = NoCall /\ E.child = 0
  BY <1>1, ExprOpens DEF FamRunning
<1>3. /\ prior \in DOMAIN rules /\ prior # 0 /\ prior < cur /\ prior # cur
      /\ rules[prior].name = "val" /\ ~Under("val") /\ value.k # "node"
  BY <1>1, PriorIs DEF FamRunning
<1>4. prior = first /\ (Height > 1 => prior > Below)
  BY <1>1, PriorPlace
<1>5. ~IsOp(arena, value)
  BY <1>3 DEF IsOp, Live
<1>6. /\ arena' = NewNode(arena, OpUsed(kind), at, <<value>>)
      /\ Publish(R, kind, Newest(arena'), PriorLinked(prior, Newest(arena'), FALSE))
      /\ pratt' = pratt
  <2> HIDE DEF value
  <2>1. /\ arena' = IF FALSE THEN Wrap(arena, value, OpUsed(kind), at)
                    ELSE NewNode(arena, OpUsed(kind), at, <<value>>)
        /\ Publish(R, kind, Newest(arena'), PriorLinked(prior, Newest(arena'), FALSE))
        /\ pratt' = pratt
    BY <1>3, <1>5 DEF ExprOpenPrior, value
  <2>2. QED
    BY <2>1
<1>7. /\ Sound(arena') /\ Extends(arena, arena') /\ Grown(arena, arena', {}) /\ Free(arena', new)
      /\ new \notin DOMAIN arena.nodes /\ Newest(arena') = node /\ Root(arena', node) = new
  <2> DEFINE terms == <<value>>
  <2>1. /\ Known(arena, terms) /\ DOMAIN terms \subseteq {1, 2}
        /\ \A i \in DOMAIN terms : terms[i].k # "node"
    BY <1>3 DEF Known
  <2>2. \A i \in DOMAIN terms : terms[i].k = "node" => Root(arena, terms[i]) \in {}
    BY <2>1
  <2>3. Sound(arena) /\ Closed(arena) /\ Covered(arena) /\ Kindred(arena)
    BY FamIs
  <2>4. arena' = NewNode(arena, OpUsed(kind), at, terms)
    BY <1>6
  <2> HIDE DEF terms, kind
  <2>5. QED
    BY <2>1, <2>2, <2>3, <2>4, NewFam
<1> HIDE DEF new
<1>8. PriorLinked(prior, node, FALSE) = others
  BY <1>3 DEF PriorLinked
<1>9. node.k = "node" /\ node.id = new
  BY DEF Handle
<1> HIDE DEF node
<1>10. /\ Formed(R) /\ R.name = "expr" /\ R.child = 0 /\ R.parent = prior
  <2>1. /\ Formed(Counted(E, kind)) /\ Counted(E, kind).name = "expr" /\ Counted(E, kind).child = 0
    BY <1>2, CountedIs
  <2>2. QED
    BY <2>1 DEF Formed
<1>11. Publish(R, kind, node, others)
  BY <1>6, <1>7, <1>8
<1> HIDE DEF R
<1>12. Spares(arena') /\ new \notin Awaited
  <2>1. \A x \in {} : x \notin Awaited
    OBVIOUS
  <2>2. Spares(arena')
    BY <1>7, <2>1, SparesIs
  <2>3. QED
    BY <1>7, <2>2, FamIs
<1>13. /\ IsSeq(others) /\ DOMAIN others = DOMAIN rules
       /\ \A r \in DOMAIN rules : r # prior => others[r] = rules[r]
       /\ others[prior].node = node /\ others[prior].attach = Undefined
       /\ others[prior].name = rules[prior].name
  <2> DEFINE Q == [rules[prior] EXCEPT !.node = node]
  <2>1. IsSeq(rules) /\ Formed(rules[prior]) /\ rules[prior].attach = Undefined
    BY <1>3, ChainIs, Fields DEF FamRunning
  <2>2. Q.node = node /\ Q.attach = Undefined /\ Q.name = rules[prior].name
    BY <2>1 DEF Formed
  <2>3. others = [rules EXCEPT ![prior] = Q]
    OBVIOUS
  <2> HIDE DEF Q, others
  <2>4. QED
    BY <1>3, <2>1, <2>2, <2>3, SeqExcept
<1> HIDE DEF others
<1>14. Others(others)
  <2>1. \A r \in DOMAIN rules : r \in DOMAIN others /\ others[r].name = rules[r].name
    BY <1>13
  <2>2. ASSUME Height > 1, NEW r \in DOMAIN rules, r <= Below PROVE others[r] = rules[r]
    <3>1. Below \in DOMAIN rules /\ DOMAIN rules \subseteq Nat
      BY <2>2, LinesBelow, FamIs DEF FamRunning
    <3>2. r # prior
      BY <1>3, <1>4, <2>2, <3>1
    <3>3. QED
      BY <1>13, <3>2
  <2>3. QED
    BY <2>1, <2>2 DEF Others
<1>15. Linked(others, prior) = node
  BY <1>3, <1>13 DEF Linked, Undefined
<1> HIDE DEF kind, E, prior, first
<1>16. ~Under("val") =>
         /\ Root(arena', node) \notin Awaited
         /\ others[First(rules, Chain, Height)].node = Handle(Root(arena', node))
         /\ R.parent < cur /\ R.parent \in DOMAIN rules \cup {0}
         /\ Linked(others, R.parent).k = "node" =>
              Root(arena', Linked(others, R.parent)) = Root(arena', node)
  BY <1>3, <1>4, <1>7, <1>10, <1>12, <1>13, <1>15 DEF first, node
<1>17. /\ rules[cur].name = "expr" /\ pratt' = NoCall /\ Free(arena', Root(arena', node))
  BY <1>2, <1>6, <1>7 DEF E
<1>18. QED
  BY <1>3, <1>9, <1>10, <1>11, <1>12, <1>13, <1>14, <1>16, <1>17, PublishFam

\* A prefix that has no expression to go into, below the val that will hold its own.
LEMMA PrefixPriorFam ==
  ASSUME FamRunning, ExprOpenPrior, ExprOpenAlt = "prefix"
  PROVE  FamInv'
<1> DEFINE E     == rules[cur]
           value == NodeOf(Below)
           new   == Len(arena.nodes) + 1
           node  == Handle(new)
           R     == [Counted(E, "prefix") EXCEPT !.parent = Below]
           others == [rules EXCEPT ![Below].node = node]
           P     == [R EXCEPT !.node = node, !.attach = node]
           rule  == Len(rules) + 1
           q     == Height - 1
<1>1. Passing("expr", "open") /\ EmbedTarget(E, "prefix") = Undefined /\ ExprOpenAlt \in DOMAIN Opening
  BY DEF ExprOpenPrior
<1>2. /\ E.name = "expr" /\ Formed(E) /\ pratt = NoCall
  BY <1>1, ExprOpens DEF FamRunning
<1>3. /\ Below \in DOMAIN rules /\ Below # 0 /\ Below < cur /\ Below # cur /\ E.parent = Below
      /\ rules[Below].name = "val" /\ Under("val")
  BY <1>1, PriorIs DEF FamRunning
<1>4. ~Above(rules, Chain, Height - 1, "expr")
  BY <1>1, PriorPlace
<1>5. /\ arena' = NewNode(arena, OpUsed("prefix"), at, << >>)
      /\ Publish(R, "prefix", Newest(arena'), PriorLinked(Below, Newest(arena'), FALSE))
      /\ pratt' = pratt
  <2> HIDE DEF value
  <2>1. /\ arena' = IF IsOp(arena, value) /\ FALSE THEN Wrap(arena, value, OpUsed("prefix"), at)
                    ELSE NewNode(arena, OpUsed("prefix"), at, << >>)
        /\ Publish(R, "prefix", Newest(arena'), PriorLinked(Below, Newest(arena'), FALSE))
        /\ pratt' = pratt
    BY <1>3 DEF ExprOpenPrior, value
  <2>2. QED
    BY <2>1
<1>6. /\ Sound(arena') /\ Extends(arena, arena') /\ Grown(arena, arena', {}) /\ Free(arena', new)
      /\ new \notin DOMAIN arena.nodes /\ Newest(arena') = node /\ Root(arena', node) = new
  <2> DEFINE terms == << >>
  <2>1. /\ Known(arena, terms) /\ DOMAIN terms \subseteq {1, 2}
        /\ \A i \in DOMAIN terms : terms[i].k # "node"
    BY DEF Known
  <2>2. \A i \in DOMAIN terms : terms[i].k = "node" => Root(arena, terms[i]) \in {}
    BY <2>1
  <2>3. Sound(arena) /\ Closed(arena) /\ Covered(arena) /\ Kindred(arena)
    BY FamIs
  <2>4. arena' = NewNode(arena, OpUsed("prefix"), at, terms)
    BY <1>5
  <2> HIDE DEF terms
  <2>5. QED
    BY <2>1, <2>2, <2>3, <2>4, NewFam
<1> HIDE DEF new
<1>7. PriorLinked(Below, node, FALSE) = others
  BY <1>3 DEF PriorLinked
<1>8. node.k = "node" /\ node.id = new
  BY DEF Handle
<1> HIDE DEF node
<1>9. Formed(R) /\ R.name = "expr"
  <2>1. /\ Formed(Counted(E, "prefix")) /\ Counted(E, "prefix").name = "expr"
    BY <1>2, CountedIs
  <2>2. QED
    BY <2>1 DEF Formed
<1> HIDE DEF R
<1>10. Formed(P) /\ P.name = "expr" /\ P.node = node
  BY <1>9 DEF Formed
<1>11. Push(P, "val", others)
  BY <1>5, <1>6, <1>7 DEF Publish
<1> HIDE DEF P
<1>12. Spares(arena') /\ new \notin Awaited
  <2>1. \A x \in {} : x \notin Awaited
    OBVIOUS
  <2>2. Spares(arena')
    BY <1>6, <2>1, SparesIs
  <2>3. QED
    BY <1>6, <2>2, FamIs
<1>13. /\ IsSeq(others) /\ DOMAIN others = DOMAIN rules
       /\ \A r \in DOMAIN rules : r # Below => others[r] = rules[r]
       /\ others[Below].node = node /\ others[Below].name = rules[Below].name
  <2> DEFINE Q == [rules[Below] EXCEPT !.node = node]
  <2>1. IsSeq(rules) /\ Formed(rules[Below])
    BY <1>3, ChainIs DEF FamRunning
  <2>2. Q.node = node /\ Q.name = rules[Below].name
    BY <2>1 DEF Formed
  <2>3. others = [rules EXCEPT ![Below] = Q]
    OBVIOUS
  <2> HIDE DEF Q, others
  <2>4. QED
    BY <1>3, <2>1, <2>2, <2>3, SeqExcept
<1> HIDE DEF others
<1>14. /\ rule \in Nat /\ rule > cur /\ DOMAIN rules' = 1..rule
       /\ rules'[cur] = Closing(P, rule)
       /\ \A r \in DOMAIN rules \ {cur} : rules'[r] = others[r]
       /\ rules'[rule] = Rule("val", P.node, P.n, cur, 0, P.d + 1)
       /\ cur' = rule /\ status' = status
       /\ Len(Chain') = Height + 1 /\ \A i \in 1..Height : Chain'[i] = Chain[i]
       /\ Chain'[Height] = cur /\ Chain'[Height + 1] = rule
  BY <1>11, <1>13, PushShape DEF FamRunning
<1>15. /\ Height \in Nat \ {0} /\ Height > 1 /\ Chain[Height] = cur /\ Len(Chain) = Height
       /\ Chain[q] = Below /\ Sorted(rules, Chain) /\ Frames(arena, rules, Chain)
       /\ cur \in DOMAIN rules /\ DOMAIN rules \subseteq Nat \ {0}
       /\ DOMAIN rules = 1..Len(rules) /\ Len(rules) \in Nat
       /\ FamFrames(arena, rules, Chain)
  <2>1. Height > 1
    BY <1>3 DEF Under, Above
  <2>2. QED
    BY <2>1, FamIs, ChainIs DEF Below, FamRunning
<1>16. /\ q \in Nat \ {0} /\ q - 1 \in 0..(Height - 1) /\ (q - 1) + 1 = q /\ q \in 1..((q - 1) + 1)
       /\ q \in 1..Height /\ q + 1 = Height /\ (Height + 1) - 1 = Height /\ Height + 1 > 1
       /\ \A i \in 1..(q - 1) : i \in 1..Height
       /\ \A i \in 1..Height : i \in 1..(q - 1) \/ i = q \/ i = Height
       /\ q - 1 > 0 => q - 1 \in 1..Len(Chain) /\ q \in 1..Len(Chain) /\ q - 1 < q
       /\ ~(q - 1 > 0) => q = 1
  BY <1>15
<1> HIDE DEF rule, q
<1>17. /\ rules'[cur].name = "expr" /\ rules'[cur].node = node /\ rules'[cur].child = rule
       /\ rules'[rule].name = "val" /\ rules'[rule].node = node /\ rules'[rule].state = "open"
       /\ rule # 0 /\ rule # cur
  BY <1>10, <1>14, <1>15 DEF Formed, Closing, Rule
<1>18. /\ rules'[Below].name = "val" /\ rules'[Below].node = node
  BY <1>3, <1>13, <1>14
<1>19. \A r \in DOMAIN rules : r \in DOMAIN rules' /\ rules'[r].name = rules[r].name
  <2> SUFFICES ASSUME NEW r \in DOMAIN rules PROVE r \in DOMAIN rules' /\ rules'[r].name = rules[r].name
    OBVIOUS
  <2>1. r \in DOMAIN rules'
    BY <1>14, <1>15 DEF rule
  <2>2. rules'[r].name = rules[r].name
    BY <1>2, <1>13, <1>14, <1>17
  <2>3. QED
    BY <2>1, <2>2
<1>20. StaysTo(arena', rules', Chain', q - 1)
  <2>1. \A i \in 1..(q - 1) : Chain'[i] = Chain[i]
    BY <1>14, <1>16
  <2>2. ASSUME q - 1 > 0, NEW r \in DOMAIN rules, r <= Chain[q - 1] PROVE rules'[r] = rules[r]
    <3>1. Chain[q - 1] < Below /\ Chain[q - 1] \in DOMAIN rules
      BY <1>15, <1>16, <2>2 DEF Frames, Sorted
    <3>2. r # Below /\ r # cur
      BY <1>3, <1>15, <2>2, <3>1
    <3>3. QED
      BY <1>13, <1>14, <3>2
  <2>3. q - 1 \in 0..(Height - 1)
    BY <1>16
  <2> DEFINE p == q - 1
  <2>4. p \in 0..(Height - 1) /\ (\A i \in 1..p : Chain'[i] = Chain[i])
        /\ (p > 0 => \A r \in DOMAIN rules : r <= Chain[p] => rules'[r] = rules[r])
    BY <2>1, <2>2, <2>3
  <2> HIDE DEF p
  <2>5. StaysTo(arena', rules', Chain', p)
    BY <1>12, <1>19, <2>4, PassKeeps
  <2>6. QED
    BY <2>5 DEF p
<1>21. /\ \A j \in 1..(q - 1) : FamAt(arena', rules', Chain', j)
       /\ Roots(arena', rules', Chain', q) = Roots(arena, rules, Chain, q)
       /\ Above(rules', Chain', q, "expr") <=> Above(rules, Chain, q, "expr")
       /\ q - 1 > 0 => (rules'[Chain'[1]].name # "expr" => Chain'[1] = 1)
  BY <1>16, <1>20 DEF StaysTo
<1>22. Chain'[q] = Below
  BY <1>14, <1>15, <1>16
<1>23. FamAt(arena', rules', Chain', q)
  <2>1. new \notin Roots(arena', rules', Chain', q)
    <3>1. Roots(arena, rules, Chain, q + 1) =
            Roots(arena, rules, Chain, q)
              \cup (IF Awaits(rules, Chain[q]) THEN {Root(arena, rules[Chain[q]].node)} ELSE {})
      <4>1. q \in Nat \ {0}
        BY <1>16
      <4>2. QED
        BY <4>1, RootsNext
    <3>2. Awaited = Roots(arena, rules, Chain, q + 1)
      <4>1. q + 1 = Height
        BY <1>16
      <4> HIDE DEF q
      <4>2. QED
        BY <4>1 DEF Awaited
    <3>3. QED
      BY <1>12, <1>21, <3>1, <3>2
  <2>2. Own(arena', Roots(arena', rules', Chain', q), node)
    BY <1>6, <1>8, <2>1 DEF Own
  <2>3. ~Awaits(rules', Below)
    BY <1>18 DEF Awaits
  <2>4. QED
    BY <1>18, <1>22, <2>2, <2>3 DEF FamAt
<1>24. FamAt(arena', rules', Chain', Height)
  <2>1. Above(rules', Chain', Height, "val") /\ Chain'[Height - 1] = Below
    BY <1>15, <1>18, <1>22 DEF Above, q
  <2>2. ~Above(rules', Chain', Height - 1, "expr")
    BY <1>4, <1>21 DEF q
  <2>3. ExprOwn(arena', rules', Chain', Height, node)
    BY <1>6, <1>8, <1>18, <2>1, <2>2 DEF ExprOwn
  <2>4. QED
    BY <1>14, <1>17, <2>3 DEF FamAt
<1>25. FamFrames(arena', rules', Chain')
  <2>1. rules'[1].name = "val"
    BY <1>15, <1>19, FamIs DEF FamFrames, Lives
  <2>2. rules'[Chain'[1]].name # "expr" => Chain'[1] = 1
    <3>1. CASE q - 1 > 0
      BY <1>21, <3>1
    <3>2. CASE ~(q - 1 > 0)
      <4>1. Chain'[1] = Below /\ Chain[1] = Below
        BY <1>15, <1>16, <1>22, <3>2
      <4>2. Below = 1
        BY <1>3, <1>15, <4>1 DEF FamFrames
      <4>3. QED
        BY <4>1, <4>2
    <3>3. QED
      BY <3>1, <3>2
  <2>3. \A j \in 1..Height : FamAt(arena', rules', Chain', j)
    BY <1>16, <1>21, <1>23, <1>24
  <2>4. QED
    BY <1>14, <1>16, <2>1, <2>2, <2>3 DEF FamFrames
<1>26. FamVal(arena', rules', Chain', Height + 1)
  <2>1. Seed(rules', Chain', Height + 1)
    BY <1>14, <1>16, <1>17 DEF Seed, Above
  <2>2. QED
    BY <1>14, <1>17, <2>1 DEF FamVal
<1>27. FamTop(arena', rules', Chain', t0', pratt')
  BY <1>14, <1>17, <1>26 DEF FamTop
<1>28. Covered(arena') /\ Kindred(arena') /\ status' # "done"
  BY <1>12, <1>14 DEF Spares, FamRunning, Running
<1>29. QED
  BY <1>25, <1>27, <1>28, FamNext

LEMMA ExprOpenPriorFam ==
  ASSUME FamRunning, ExprOpenPrior
  PROVE  FamInv'
BY InfixPriorFam, PrefixPriorFam

(***************************************************************************)
(* expr: closing.                                                          *)
(***************************************************************************)
\* The last operand, if there is one, is the only thing the expression takes.
LEMMA CompletedFam ==
  ASSUME FamRunning, Passing("expr", "close"), arena' = Completed(rules[cur])
  PROVE  LET E == rules[cur]
             f == Root(arena, E.node)
             own == E.child = 0 \/ Awaits(rules, cur)
         IN  /\ Spares(arena') /\ FamClose(arena, rules, Chain, Height)
             /\ E.node \in Value /\ E.node.k = "node" /\ E.node.id \in DOMAIN arena.nodes
             /\ f \in DOMAIN arena.nodes /\ arena.nodes[f].root = f
             /\ \A v \in Value : v.k = "node" => Root(arena', v) = Root(arena, v)
             /\ own => ExprOwn(arena, rules, Chain, Height, E.node) /\ Free(arena', f)
             /\ ~own => /\ arena' = arena /\ Foreign(arena, E.node) /\ Sole(arena, Awaited, E.node)
                        /\ Under("val") /\ E.node = rules[Below].node
<1> DEFINE E == rules[cur]
           f == Root(arena, E.node)
           w == NodeOf(E.child)
           b == Completed(E)
           own == E.child = 0 \/ Awaits(rules, cur)
<1>1. /\ TopExprClose(arena, rules, Chain, Height, t0) /\ Chain[Height] = cur
      /\ E.name = "expr" /\ E.state = "close" /\ E.child \in DOMAIN rules \cup {0}
  BY ExprCloses DEF FamRunning
<1>2. /\ FamTop(arena, rules, Chain, t0, pratt) /\ Len(Chain) = Height /\ Height \in Nat \ {0}
      /\ Sound(arena) /\ Closed(arena) /\ Covered(arena) /\ Kindred(arena)
      /\ Lives(arena, rules) /\ cur \in DOMAIN rules /\ DOMAIN rules \subseteq Nat \ {0}
  BY FamIs
<1>3. FamClose(arena, rules, Chain, Height)
  BY <1>1, <1>2 DEF FamTop
<1>4. E.node \in Value
  BY <1>2, ChainIs, Fields DEF FamRunning
<1>5. /\ own => ExprOwn(arena, rules, Chain, Height, E.node)
      /\ Awaits(rules, cur) /\ rules[E.child].node # E.node =>
           /\ Sole(arena, Awaited \cup {f}, rules[E.child].node)
           /\ Foreign(arena, rules[E.child].node)
      /\ E.child # 0 /\ ~Awaits(rules, cur) =>
           E.node.k = "node" /\ Foreign(arena, E.node) /\ Sole(arena, Awaited, E.node)
  BY <1>1, <1>3 DEF FamClose, Awaited
<1>6. E.node.k = "node"
  BY <1>5 DEF ExprOwn
<1>7. Live(arena, E.node) /\ E.node.id \in DOMAIN arena.nodes
  BY <1>2, <1>6 DEF Lives, Live
<1>8. f \in DOMAIN arena.nodes /\ arena.nodes[f].root = f
  BY <1>2, <1>7, Sizes DEF Root
<1>9. own => Free(arena, f)
  BY <1>5 DEF ExprOwn
<1>10. w = IF E.child = 0 THEN Undefined ELSE rules[E.child].node
  BY DEF NodeOf
<1>11. ~own => Under("val") /\ E.node = rules[Below].node /\ rules[E.child].node = E.node
  BY <1>1 DEF TopExprClose, Under, Below
<1>12. /\ Spares(b) /\ Extends(arena, b)
       /\ own => Free(b, f)
       /\ ~own => b = arena
  <2>1. CASE b = arena
    <3>1. Spares(b) /\ Extends(arena, b)
      BY <2>1, GrownSame
    <3>2. QED
      BY <1>9, <2>1, <3>1
  <2>2. CASE b # arena
    <3>1. b = PushTerm(arena, E.node, w) /\ ~SameNode(E.node, w)
      BY <2>2 DEF Completed
    <3>2. own
      BY <1>6, <1>10, <1>11, <3>1 DEF SameNode
    <3>3. arena.nodes[E.node.id].terms \in Seq(Value)
      BY <1>7 DEF FamRunning, Running, TypeInv, Typed, TermsTyped
    <3>4. ASSUME w.k = "node"
          PROVE  /\ w.id \in DOMAIN arena.nodes /\ Root(arena, w) # f
                 /\ arena.nodes[w.id].op.kind \in Brackets /\ Root(arena, w) \notin Awaited
      <4>1. E.child # 0 /\ w = rules[E.child].node
        BY <1>10, <3>4 DEF Undefined
      <4>2. w.id \in DOMAIN arena.nodes
        BY <1>1, <1>2, <3>4, <4>1 DEF Lives
      <4>3. w # E.node
        BY <1>6, <3>1 DEF SameNode
      <4>4. Sole(arena, Awaited \cup {f}, w) /\ Foreign(arena, w)
        BY <1>5, <3>2, <4>1, <4>3
      <4>5. QED
        BY <3>4, <4>2, <4>4 DEF Sole, Own, Foreign
    <3> DEFINE taken == IF w.k = "node" THEN {Root(arena, w)} ELSE {}
    <3>5. Free(arena, Root(arena, E.node)) /\ (w.k = "node" => Root(arena, w) # Root(arena, E.node))
      BY <1>9, <3>2, <3>4
    <3> DEFINE v == E.node
               V == Value
               c == PushTerm(arena, v, w)
    <3> HIDE DEF w, V, v
    <3>6. Extends(arena, c) /\ Grown(arena, c, taken)
      <4>1. /\ Sound(arena) /\ Closed(arena) /\ Covered(arena) /\ Kindred(arena) /\ Live(arena, v)
            /\ arena.nodes[v.id].terms \in Seq(V) /\ Free(arena, Root(arena, v))
            /\ w.k = "node" => /\ w.id \in DOMAIN arena.nodes /\ Root(arena, w) # Root(arena, v)
                               /\ arena.nodes[w.id].op.kind \in Brackets
        BY <1>2, <1>7, <3>3, <3>4, <3>5 DEF v, V
      <4>2. QED
        BY <4>1, PushFam
    <3>7. b = c
      BY <3>1 DEF v
    <3> HIDE DEF b, c, E, f
    <3>8. \A x \in taken : x \notin Awaited
      BY <3>4
    <3>9. Spares(b)
      <4> HIDE DEF taken
      <4>1. QED
        BY <3>6, <3>7, <3>8, SparesIs
    <3>10. f \in DOMAIN arena.nodes \ taken
      BY <1>8, <3>4
    <3>11. Free(b, f)
      BY <1>9, <3>2, <3>6, <3>7, <3>10 DEF Grown
    <3>12. QED
      BY <3>2, <3>6, <3>7, <3>9, <3>11
  <2>3. QED
    BY <2>1, <2>2
<1>13. b = arena'
  OBVIOUS
<1> HIDE DEF b, w
<1>14. \A v \in Value : v.k = "node" => Root(arena', v) = Root(arena, v)
  BY <1>12, <1>13 DEF Extends, Root, Value, Values
<1>15. QED
  BY <1>3, <1>4, <1>5, <1>6, <1>7, <1>8, <1>11, <1>12, <1>13, <1>14

\* The node put back on the rule is the root of its expression.
LEMMA RootedNode ==
  ASSUME NEW a, NEW E, Formed(E), Live(a, E.node)
  PROVE  LET R == Rooted(a, E)
         IN  /\ R.name = E.name /\ R.node = Handle(Root(a, E.node)) /\ R.attach = E.attach
             /\ R.parent = E.parent
BY DEF Rooted, Formed, IsOp, RootOf, Root

LEMMA ExprCloseBaseFam ==
  ASSUME FamRunning, ExprCloseBase
  PROVE  FamInv'
<1>1. Passing("expr", "close") /\ arena' = Completed(rules[cur]) /\ status' = "base"
  BY DEF ExprCloseBase
<1>2. Spares(arena')
  BY <1>1, CompletedFam
<1>3. QED
  BY <1>1, <1>2, FamNext DEF Spares

LEMMA ExprCloseReplaceFam ==
  ASSUME FamRunning, ExprCloseReplace
  PROVE  FamInv'
<1> DEFINE E   == rules[cur]
           R   == Rooted(arena', E)
           S   == Rule(ExprCloseAlt(E), E.node, E.n, E.parent, cur, E.d)
           f   == Root(arena, E.node)
           new == Len(rules) + 1
           first == First(rules, Chain, Height)
           u   == Linked(rules, E.parent)
<1>1. /\ Passing("expr", "close") /\ ExprCloseAlt(E) \in {"expr", "ternary"}
      /\ arena' = Completed(E) /\ rules' = Append([rules EXCEPT ![cur] = R], S)
      /\ cur' = new /\ Keep /\ stack' = stack /\ pratt' = pratt /\ status' = status
  BY DEF ExprCloseReplace
<1>2. /\ ExprCloseAlt(E) = "expr" /\ E.n.prefix = 0
      /\ ~(E.child # 0 /\ rules[E.child].name = "paren")
  <2>1. ExprCloseAlt(E) # "ternary"
    <3>1. Tern0 = {}
      BY DEF FamRunning, Running, NoTernaries, Tern0
    <3>2. QED
      BY <3>1, ExprCloseChosen
  <2>2. QED
    BY <1>1, <2>1, ExprCloseChosen
<1>3. /\ TopExprClose(arena, rules, Chain, Height, t0) /\ Chain[Height] = cur
      /\ E.name = "expr" /\ Formed(E) /\ pratt = NoCall /\ ~Under("expr")
      /\ E.parent \in DOMAIN rules \cup {0}
  BY <1>1, ExprCloses DEF FamRunning
<1>4. /\ ~Under("val") /\ E.parent < cur /\ E.node = E.attach
      /\ E.child = 0 \/ Awaits(rules, cur)
  BY <1>2, <1>3 DEF TopExprClose, ExprHolds, Apart, Under
<1>5. /\ Spares(arena') /\ E.node \in Value /\ E.node.k = "node" /\ E.node.id \in DOMAIN arena.nodes
      /\ \A v \in Value : v.k = "node" => Root(arena', v) = Root(arena, v)
      /\ ExprOwn(arena, rules, Chain, Height, E.node) /\ Free(arena', f)
  BY <1>1, <1>4, CompletedFam
<1>6. f \notin Awaited /\ Tied(arena, rules, Chain, Height, f)
  BY <1>4, <1>5 DEF ExprOwn, Under, Awaited
<1>7. rules[first].node = Handle(f) /\ (u.k = "node" => Root(arena, u) = f)
  BY <1>3, <1>6 DEF Tied
<1>8. u \in Value
  <2>1. E.parent \in 0..Len(rules)
    BY <1>3, ChainIs DEF FamRunning
  <2>2. QED
    BY <2>1, LinkedIs DEF FamRunning, Running
<1>9. R.name = E.name /\ R.attach = E.attach
  BY <1>3 DEF Rooted, Formed
<1>10. S.name = "expr" /\ S.state = "open" /\ S.prev = cur /\ S.parent = E.parent
  BY <1>2 DEF Rule
<1>11. /\ cur \in DOMAIN rules /\ DOMAIN rules \subseteq Nat \ {0} /\ Height \in Nat \ {0}
       /\ first # cur /\ first \in DOMAIN rules
  BY <1>3, <1>4, FamIs, FirstApart, FirstIs
<1> HIDE DEF R, S, E, f, first, u
<1>12. /\ rules'[cur] = R /\ \A r \in DOMAIN rules \ {cur} : rules'[r] = rules[r]
       /\ rules'[new] = S /\ new # cur
       /\ FamBelow(arena', rules', Chain')
       /\ First(rules', Chain', Height) = first
       /\ Chain'[Height] = new /\ Len(Chain') = Height
       /\ FamFrames(arena', rules', Chain')
  BY <1>1, <1>5, <1>9, <1>10, ReplacesFam DEF E, first
<1> HIDE DEF new
<1>13. Linked(rules', cur) = E.node
  <2>1. cur # 0 /\ rules'[cur].attach = E.node
    BY <1>4, <1>9, <1>11, <1>12
  <2>2. QED
    BY <1>5, <2>1 DEF Linked
<1>14. Linked(rules', E.parent) = u
  <2>1. E.parent = 0 \/ E.parent \in DOMAIN rules \ {cur}
    BY <1>3, <1>4, <1>11
  <2>2. QED
    BY <1>12, <2>1 DEF Linked, u
<1>15. /\ Above(rules', Chain', Height, "val") <=> Under("val")
       /\ Roots(arena', rules', Chain', Height) = Awaited
       /\ Height > 1 => Chain'[Height - 1] = Below
  BY <1>12 DEF FamBelow
<1>16. Tied(arena', rules', Chain', Height, f)
  <2>1. rules'[First(rules', Chain', Height)].node = Handle(f)
    BY <1>7, <1>11, <1>12
  <2>2. Linked(rules', rules'[Chain'[Height]].parent) = u
    BY <1>10, <1>12, <1>14
  <2>3. u.k = "node" => Root(arena', u) = f
    BY <1>5, <1>7, <1>8
  <2>4. QED
    BY <2>1, <2>2, <2>3 DEF Tied
<1>17. Root(arena', E.node) = f
  BY <1>5 DEF f
<1>18. ExprOwn(arena', rules', Chain', Height, E.node)
  BY <1>4, <1>5, <1>6, <1>15, <1>16, <1>17 DEF ExprOwn
<1>19. FamOpen(arena', rules', Chain', Height, t0')
  <2>1. Height > 1 => cur > Below
    BY <1>11, LinesBelow DEF FamRunning
  <2>2. QED
    BY <1>4, <1>5, <1>10, <1>12, <1>13, <1>15, <1>18, <2>1 DEF FamOpen
<1>20. FamTop(arena', rules', Chain', t0', pratt')
  BY <1>1, <1>3, <1>10, <1>12, <1>19 DEF FamTop
<1>21. Covered(arena') /\ Kindred(arena') /\ status' # "done"
  BY <1>1, <1>5 DEF Spares, FamRunning, Running
<1>22. QED
  BY <1>12, <1>20, <1>21, FamNext

LEMMA ExprPopsFam ==
  ASSUME FamRunning, Passing("expr", "close"), NEW F, Formed(F), F.name = "expr",
         F.node = rules[cur].node, arena' = Completed(rules[cur]),
         Pop(Rooted(arena', F), rules, t0), pratt' = NoCall
  PROVE  FamInv'
<1> DEFINE E  == rules[cur]
           R  == Rooted(arena', F)
           B  == rules[Below]
           v  == E.node
           f  == Root(arena, v)
           own == E.child = 0 \/ Awaits(rules, cur)
           Fs == Roots(arena, rules, Chain, Height - 1)
           first == First(rules, Chain, Height)
<1>1. /\ TopExprClose(arena, rules, Chain, Height, t0) /\ Chain[Height] = cur
      /\ E.name = "expr" /\ ~Under("expr")
  BY ExprCloses DEF FamRunning
<1>2. /\ Spares(arena') /\ v \in Value /\ v.k = "node" /\ v.id \in DOMAIN arena.nodes
      /\ f \in DOMAIN arena.nodes /\ arena.nodes[f].root = f
      /\ \A x \in Value : x.k = "node" => Root(arena', x) = Root(arena, x)
      /\ own => ExprOwn(arena, rules, Chain, Height, v) /\ Free(arena', f)
      /\ ~own => /\ arena' = arena /\ Foreign(arena, v) /\ Sole(arena, Awaited, v)
                 /\ Under("val") /\ v = B.node
  BY CompletedFam
<1>3. /\ Covered(arena') /\ Kindred(arena') /\ Extends(arena, arena')
      /\ cur \in DOMAIN rules /\ DOMAIN rules \subseteq Nat \ {0} /\ Height \in Nat \ {0}
      /\ IsSeq(rules) /\ Others(rules)
  BY <1>2, FamIs, ChainIs, OthersSame DEF Spares, FamRunning
<1>4. own /\ ~Under("val") => /\ f \notin Awaited /\ rules[first].node = Handle(f)
                              /\ first # cur /\ first \in DOMAIN rules
  <2>1. ASSUME own, ~Under("val")
        PROVE  f \notin Awaited /\ Tied(arena, rules, Chain, Height, f)
    BY <1>2, <2>1 DEF ExprOwn, Under, Awaited
  <2>2. ~Under("val") => first # cur /\ first \in DOMAIN rules
    BY <1>1, FirstApart, FirstIs
  <2>3. QED
    BY <2>1, <2>2 DEF Tied
<1>5. R.name = "expr" /\ R.node = Handle(f)
  <2>1. Live(arena', F.node)
    BY <1>2, <1>3 DEF Live, Extends
  <2>2. R.name = F.name /\ R.node = Handle(Root(arena', F.node))
    BY <2>1, RootedNode
  <2>3. QED
    BY <1>2, <2>2
<1>6. Pop(R, rules, t0)
  OBVIOUS
<1>7. own \/ ~own
  OBVIOUS
<1> HIDE DEF R, own
<1>8. CASE status' # "run"
  <2>1. Height = 1 /\ result' = R.node /\ rules'[cur] = R
        /\ \A r \in DOMAIN rules \ {cur} : rules'[r] = rules[r]
    BY <1>3, <1>6, <1>8, PopsOver
  <2>2. ~Under("val") /\ first = 1
    BY <2>1 DEF Under, Above, First
  <2>3. rules'[1] = rules[1] /\ rules[1].node = Handle(f)
    BY <1>2, <1>4, <2>1, <2>2
  <2>4. QED
    BY <1>3, <1>5, <1>8, <2>1, <2>3, FamNext
<1>9. CASE status' = "run"
  <2>1. R.name = rules[cur].name
    BY <1>1, <1>5
  <2>2. /\ rules'[cur] = R /\ \A r \in DOMAIN rules \ {cur} : rules'[r] = rules[r]
        /\ Height > 1 /\ cur' = Below
        /\ Chain'[Height - 1] = Below /\ Len(Chain') = Height - 1
        /\ rules'[Below] = rules[Below] /\ FamBelow(arena', rules', Chain')
        /\ Roots(arena', rules', Chain', Height - 1) = Roots(arena, rules, Chain, Height - 1)
        /\ FamFrames(arena', rules', Chain') /\ FamAt(arena', rules', Chain', Height - 1)
    BY <1>2, <1>3, <1>6, <1>9, <2>1, PopsFam
  <2>3. /\ Awaited = Fs \cup (IF Awaits(rules, Below) THEN {Root(arena, B.node)} ELSE {})
        /\ B.name # "expr" => Awaited = Fs
    BY <2>2, AwaitedBelow
  <2>4. /\ Waits(arena, rules, Chain, Height - 1) /\ Pushed(arena, rules, Chain, Height - 1)
        /\ Chain[Height - 1] = Below /\ Chain[(Height - 1) + 1] = cur
        /\ \A nm : Under(nm) <=> B.name = nm
        /\ Below \in DOMAIN rules
    BY <2>2, BelowWaits, LinesBelow DEF FamRunning
  <2>5. B.state = "close"
    BY <2>4 DEF Waits
  <2>6. /\ Above(rules', Chain', Height - 1, "expr") <=> Above(rules, Chain, Height - 1, "expr")
        /\ Seed(rules', Chain', Height - 1) <=> Seed(rules, Chain, Height - 1)
    BY <2>2 DEF FamBelow
  <2>7. B.node \in Value
    BY <2>4, ChainIs, Fields DEF FamRunning
  <2>8. CASE Under("val")
    <3>1. B.name = "val" /\ Awaited = Fs
      BY <2>3, <2>4, <2>8
    <3>2. B.node.k = "node"
      <4>1. ~own => B.node.k = "node"
        BY <1>2
      <4>2. Above(rules, Chain, Height, "val") /\ rules[Chain[Height - 1]] = B
        BY <2>4, <2>8 DEF Under
      <4>3. own => B.node.k = "node"
        BY <1>1, <1>2, <4>2 DEF TopExprClose, ExprHolds, Apart
      <4>4. QED
        BY <4>1, <4>3
    <3>3. /\ own => /\ f = Root(arena, B.node)
                    /\ Above(rules, Chain, Height - 1, "expr") => Seed(rules, Chain, Height - 1)
      BY <1>2, <2>4, <2>8 DEF ExprOwn, Under
    <3>4. Seed(rules', Chain', Height - 1) \/ Own(arena', Fs, B.node)
      BY <2>2, <3>1 DEF FamAt
    <3>5. \/ Seed(rules', Chain', Height - 1)
          \/ /\ Sole(arena', Fs, B.node)
             /\ Above(rules', Chain', Height - 1, "expr") => Foreign(arena', B.node)
      <4>1. CASE own
        <5>1. Root(arena', B.node) = f /\ Free(arena', f)
          BY <1>2, <2>7, <3>2, <3>3, <4>1
        <5>2. ASSUME Own(arena', Fs, B.node) PROVE Sole(arena', Fs, B.node)
          BY <5>1, <5>2 DEF Sole, Own
        <5>3. QED
          BY <2>6, <3>3, <3>4, <4>1, <5>2
      <4>2. CASE ~own
        BY <1>2, <3>1, <4>2
      <4>3. QED
        BY <4>1, <4>2
    <3>6. FamVal(arena', rules', Chain', Height - 1)
      BY <2>2, <2>5, <3>2, <3>5 DEF FamVal
    <3>7. FamTop(arena', rules', Chain', t0', pratt')
      BY <2>2, <3>1, <3>6 DEF FamTop
    <3>8. QED
      BY <1>3, <1>9, <2>2, <3>7, FamNext
  <2>9. CASE ~Under("val")
    <3>1. /\ B.name = "paren" /\ Awaited = Fs
      <4>1. B.name = "paren"
        BY <1>1, <2>2, <2>9, UnderParen DEF FamRunning
      <4>2. QED
        BY <2>3, <4>1
    <3>2. own
      BY <1>2, <2>9
    <3>3. first = B.child
      BY <2>2, FirstIs
    <3>4. rules'[B.child].node = Handle(f)
      BY <1>4, <2>2, <2>9, <3>2, <3>3
    <3>5. Sole(arena', Fs, Handle(f))
      <4>1. Handle(f).k = "node" /\ Handle(f).id = f
        BY DEF Handle
      <4>2. Root(arena', Handle(f)) = f
        BY <1>2, <1>3, <4>1 DEF Root, Extends
      <4>3. f \notin Fs /\ Free(arena', f)
        BY <1>2, <1>4, <2>9, <3>1, <3>2
      <4>4. QED
        BY <4>1, <4>2, <4>3 DEF Sole, Own
    <3>6. B.depth # {}
      BY <2>2, <3>1 DEF FamAt
    <3>7. FamParen(arena', rules', Chain', Height - 1)
      BY <2>2, <3>4, <3>5, <3>6 DEF FamParen
    <3>8. FamTop(arena', rules', Chain', t0', pratt')
      BY <2>2, <3>1, <3>7 DEF FamTop
    <3>9. QED
      BY <1>3, <1>9, <2>2, <3>8, FamNext
  <2>10. QED
    BY <2>8, <2>9
<1>10. QED
  BY <1>8, <1>9

LEMMA ExprClosePopFam ==
  ASSUME FamRunning, ExprClosePop
  PROVE  FamInv'
<1>1. /\ Passing("expr", "close") /\ arena' = Completed(rules[cur])
      /\ Pop(Rooted(arena', rules[cur]), rules, t0) /\ pratt' = pratt
  BY DEF ExprClosePop
<1>2. rules[cur].name = "expr" /\ Formed(rules[cur]) /\ pratt = NoCall
  BY <1>1, PassIs DEF FamRunning
<1>3. QED
  BY <1>1, <1>2, ExprPopsFam

LEMMA ExprCloseEndFam ==
  ASSUME FamRunning, ExprCloseEnd
  PROVE  FamInv'
<1> DEFINE F == [rules[cur] EXCEPT !.n.expr = 0]
<1>1. /\ Passing("expr", "close") /\ arena' = Completed(rules[cur])
      /\ Pop(Rooted(arena', F), rules, t0) /\ pratt' = pratt
  BY DEF ExprCloseEnd
<1>2. rules[cur].name = "expr" /\ Formed(rules[cur]) /\ pratt = NoCall
  BY <1>1, PassIs DEF FamRunning
<1>3. Formed(F) /\ F.name = "expr" /\ F.node = rules[cur].node
  BY <1>2 DEF Formed
<1> HIDE DEF F
<1>4. QED
  BY <1>1, <1>2, <1>3, ExprPopsFam

(***************************************************************************)
(* paren                                                                   *)
(***************************************************************************)
LEMMA ParenOpenEmptyFam ==
  ASSUME FamRunning, ParenOpenEmpty
  PROVE  FamInv'
<1> DEFINE O == Opened(Opens(t0))
           S == [O EXCEPT !.state = "close"]
<1>1. /\ Passing("paren", "open") /\ Stay(O, rules) /\ arena' = arena /\ pratt' = pratt
  BY DEF ParenOpenEmpty
<1>2. rules[cur].name = "paren" /\ Formed(rules[cur]) /\ rules[cur].child = 0 /\ IsSeq(rules)
  BY <1>1, ParenPasses, PassIs DEF FamRunning
<1>3. Formed(O) /\ O.name = "paren" /\ O.child = 0 /\ O.depth = {Opens(t0)}
  BY <1>2, OpenedIs DEF FamRunning
<1>4. rules' = [rules EXCEPT ![cur] = S] /\ cur' = cur /\ stack' = stack /\ status' = status
  BY <1>1 DEF Stay
<1> HIDE DEF O
<1>5. S.name = "paren" /\ S.child = 0 /\ S.depth = {Opens(t0)}
  BY <1>3 DEF Formed
<1> HIDE DEF S
<1>6. Others(rules) /\ Spares(arena') /\ Covered(arena) /\ Kindred(arena) /\ DOMAIN rules = DOMAIN rules
  BY <1>1, FamIs, GrownSame, OthersSame
<1>7. /\ rules'[cur] = S /\ Chain'[Height] = cur /\ Len(Chain') = Height
      /\ FamFrames(arena', rules', Chain')
  BY <1>2, <1>4, <1>5, <1>6, StaysFam
<1>8. FamParen(arena', rules', Chain', Height)
  BY <1>5, <1>7 DEF FamParen
<1>9. FamTop(arena', rules', Chain', t0', pratt')
  BY <1>5, <1>7, <1>8 DEF FamTop
<1>10. status' = "run"
  BY <1>4 DEF FamRunning, Running
<1>11. QED
  BY <1>1, <1>6, <1>7, <1>9, <1>10, FamNext

LEMMA ParenOpenValFam ==
  ASSUME FamRunning, ParenOpenVal
  PROVE  FamInv'
<1> DEFINE O == Opened(Opens(t0))
           R == [O EXCEPT !.n.paren = @ + 1, !.n.expr = 0, !.n.prefix = 0, !.n.suffix = 0]
           new == Len(rules) + 1
           S   == rules'[cur]
           N   == rules'[new]
<1>1. /\ Passing("paren", "open") /\ Push(R, "val", rules) /\ arena' = arena /\ pratt' = pratt
  BY DEF ParenOpenVal
<1>2. rules[cur].name = "paren" /\ Formed(rules[cur])
  BY <1>1, ParenPasses DEF FamRunning
<1>3. Formed(O) /\ O.name = "paren" /\ O.node = Undefined /\ O.depth = {Opens(t0)}
  BY <1>2, OpenedIs DEF FamRunning
<1> HIDE DEF O
<1>4. Formed(R) /\ R.name = "paren" /\ R.node = Undefined /\ R.depth = {Opens(t0)}
  BY <1>3 DEF Formed
<1> HIDE DEF R
<1>5. IsSeq(rules) /\ Others(rules) /\ Spares(arena') /\ Covered(arena) /\ Kindred(arena)
  BY <1>1, FamIs, ChainIs, GrownSame, OthersSame DEF FamRunning
<1>6. R.name = rules[cur].name
  BY <1>2, <1>4
<1>7. /\ S.name = R.name /\ S.depth = R.depth
      /\ N.name = "val" /\ N.state = "open" /\ N.node = R.node
      /\ \A nm : Above(rules', Chain', Height + 1, nm) <=> R.name = nm
      /\ Awaits(rules', cur) <=> R.name = "expr" /\ "val" = "val"
      /\ cur' = new /\ status' = "run"
      /\ Chain'[Height] = cur /\ Chain'[Height + 1] = new /\ Len(Chain') = Height + 1
      /\ FamAt(arena', rules', Chain', Height) => FamFrames(arena', rules', Chain')
  BY <1>1, <1>4, <1>5, <1>6, PushesFam
<1> HIDE DEF new, S, N
<1>8. FamAt(arena', rules', Chain', Height)
  BY <1>4, <1>7 DEF FamAt, S
<1>9. FamVal(arena', rules', Chain', Height + 1)
  <2>1. ~Above(rules', Chain', Height + 1, "expr") /\ rules'[Chain'[Height + 1]] = N
    BY <1>4, <1>7 DEF N
  <2>2. Sole(arena', Roots(arena', rules', Chain', Height + 1), N.node)
    BY <1>4, <1>7 DEF Sole, Own, Undefined
  <2>3. QED
    BY <1>7, <2>1, <2>2 DEF FamVal
<1>10. FamTop(arena', rules', Chain', t0', pratt')
  BY <1>7, <1>9 DEF FamTop, N
<1>11. QED
  BY <1>1, <1>5, <1>7, <1>8, <1>10, FamNext

\* A val that asked for a paren after its value is not handing its seed on.
LEMMA PrevalOwn ==
  ASSUME FamRunning, Passing("paren", "close")
  PROVE  LET G == Chain[Height - 2]
         IN  /\ rules[G].preval => Own(arena, Awaited, rules[G].node)
             /\ Roots(arena, rules, Chain, Height - 2) = Awaited
             /\ Roots(arena, rules, Chain, Height - 1) = Awaited
<1> DEFINE G == Chain[Height - 2]
           p == Height - 2
           x == Chain[p - 1]
           v == rules[G].node
<1>1. /\ p \in 1..(Height - 1) /\ p + 1 = Height - 1 /\ (Height - 1) + 1 = Height
      /\ Chain[Height - 1] = Below /\ rules[Below].child = cur
      /\ rules[G].name = "val" /\ (rules[G].preval => Beyond(Lines, v))
  BY ParenPlace DEF FamRunning
<1>2. rules[cur].name = "paren"
  BY ParenPasses DEF FamRunning
<1>3. ~Awaits(rules, Chain[Height - 1]) /\ ~Awaits(rules, Chain[p])
  BY <1>1, <1>2 DEF Awaits
<1>4. Roots(arena, rules, Chain, p) = Awaited /\ Roots(arena, rules, Chain, Height - 1) = Awaited
  <2> DEFINE q == Height - 1
  <2>1. p \in Nat \ {0} /\ q \in Nat \ {0} /\ q + 1 = Height /\ p + 1 = q
        /\ ~Awaits(rules, Chain[q]) /\ ~Awaits(rules, Chain[p])
    BY <1>1, <1>3, FamIs
  <2> HIDE DEF p, q
  <2>2. Roots(arena, rules, Chain, q + 1) = Roots(arena, rules, Chain, q)
            \cup (IF Awaits(rules, Chain[q]) THEN {Root(arena, rules[Chain[q]].node)} ELSE {})
    BY <2>1, RootsNext
  <2>3. Roots(arena, rules, Chain, p + 1) = Roots(arena, rules, Chain, p)
            \cup (IF Awaits(rules, Chain[p]) THEN {Root(arena, rules[Chain[p]].node)} ELSE {})
    BY <2>1, RootsNext
  <2>4. Roots(arena, rules, Chain, p) = Awaited /\ Roots(arena, rules, Chain, q) = Awaited
    BY <2>1, <2>2, <2>3 DEF Awaited
  <2>5. QED
    BY <2>4 DEF p, q
<1>5. FamAt(arena, rules, Chain, p) /\ Height \in Nat \ {0} /\ Lives(arena, rules)
      /\ Sorted(rules, Chain) /\ Frames(arena, rules, Chain) /\ Len(Chain) = Height
      /\ DOMAIN rules \subseteq Nat \ {0} /\ \A j \in 1..(Height - 1) : FamAt(arena, rules, Chain, j)
  BY <1>1, FamIs
<1>6. Seed(rules, Chain, p) \/ Own(arena, Awaited, v)
  BY <1>1, <1>4, <1>5 DEF FamAt
<1>7. ASSUME rules[G].preval, Seed(rules, Chain, p) PROVE FALSE
  <2>1. p > 1 /\ rules[x].name = "expr" /\ v = rules[x].node
    BY <1>7 DEF Seed, Above
  <2>2. p - 1 \in 1..(Height - 1) /\ (p - 1) + 1 = p /\ p - 1 \in 1..(Len(Chain) - 1)
    BY <1>1, <1>5, <2>1
  <2>3. Pushed(arena, rules, Chain, p - 1)
    BY <1>5, <2>2 DEF Frames
  <2>4. rules[x].child = G /\ G # 0
    <3>1. rules[x].child = Chain[(p - 1) + 1]
      BY <2>1, <2>3 DEF Pushed
    <3>2. G \in DOMAIN rules
      BY <1>1, <1>5 DEF Sorted
    <3>3. QED
      BY <1>5, <2>2, <3>1, <3>2
  <2>5. Awaits(rules, x)
    BY <1>1, <2>1, <2>4 DEF Awaits
  <2>6. Mark(arena, v) \in Lines /\ Firm(arena, v)
    BY <2>1, <2>2, <2>5, LinesAre DEF FamRunning
  <2>7. v.k = "node" /\ v.id \in DOMAIN arena.nodes
    BY <2>6 DEF Firm, Live
  <2>8. v.id > Mark(arena, v)
    BY <1>1, <1>7, <2>6, <2>7 DEF Beyond
  <2>9. Mark(arena, v) \in Nat /\ v.id \in Nat
    <3>1. Mark(arena, v) \in Nat
      BY <2>6, LinesAre DEF FamRunning
    <3>2. Len(arena.nodes) \in Nat /\ DOMAIN arena.nodes = 1..Len(arena.nodes)
      BY FamIs, Sizes
    <3> HIDE DEF v
    <3>3. QED
      BY <2>7, <3>1, <3>2
  <2>10. Mark(arena, v) = v.id \/ Mark(arena, v) > v.id
    BY DEF Mark
  <2> HIDE DEF v
  <2>11. QED
    BY <2>8, <2>9, <2>10
<1>8. QED
  BY <1>4, <1>6, <1>7

LEMMA OneHeld ==
  ASSUME NEW V, NEW v \in V, NEW s, s = <<v>> \/ s = << >>
  PROVE  s \in Seq(V) /\ Len(s) <= 1
<1>1. CASE s = <<v>>
  BY <1>1
<1>2. CASE s = << >>
  BY <1>2
<1>3. QED
  BY <1>1, <1>2

\* With one kind of paren a closer is the paren's own.  Its node takes what it
\* holds and the value before it, neither of which an expression awaits.
LEMMA ParenTakesFam ==
  ASSUME FamRunning, Passing("paren", "close"), AcceptsCloser(rules[cur])
  PROVE  LET P     == rules[cur]
             terms == ParenTerms(P, rules[P.parent].parent)
             b     == NewNode(arena, ParenOp(Closes(t0)), at, terms)
             node  == Handle(Len(arena.nodes) + 1)
         IN  /\ Closes(t0) \in P.depth /\ Newest(b) = node /\ node.k = "node"
             /\ Spares(b) /\ Foreign(b, node) /\ Sole(b, Awaited, node)
<1> DEFINE P     == rules[cur]
           G     == Chain[Height - 2]
           inner == ParenInner(P)
           terms == ParenTerms(P, G)
           op    == ParenOp(Closes(t0))
           b     == NewNode(arena, op, at, terms)
           new   == Len(arena.nodes) + 1
           node  == Handle(new)
<1>1. /\ P.parent = Below /\ rules[Below].parent = G /\ G \in DOMAIN rules
      /\ rules[G].preval => Own(arena, Awaited, rules[G].node)
  BY ParenPlace, PrevalOwn DEF FamRunning
<1>2. TopParen(arena, rules, Chain, Height, t0) /\ P.state = "close" /\ P.name = "paren"
      /\ P \in Rules(Value, Len(rules)) /\ P.node = Undefined
  BY ParenPasses, PassIs DEF TopParen, FamRunning
<1>3. /\ FamTop(arena, rules, Chain, t0, pratt) /\ Len(Chain) = Height /\ Chain[Height] = cur
      /\ Sound(arena) /\ Closed(arena) /\ Covered(arena) /\ Kindred(arena)
  BY FamIs
<1>4. P.depth # {} /\ (P.child # 0 => Sole(arena, Awaited, rules[P.child].node))
  <2>1. FamParen(arena, rules, Chain, Height)
    BY <1>2, <1>3 DEF FamTop
  <2>2. QED
    BY <1>2, <1>3, <2>1 DEF FamParen, Awaited
<1>5. Closes(t0) \in P.depth
  <2>1. PICK n \in DOMAIN Paren : Paren[n].close = t0
    BY DEF AcceptsCloser, ParenClose
  <2>2. Closes(t0) \in DOMAIN Paren
    BY <2>1 DEF Closes
  <2>3. P.depth \subseteq DOMAIN Paren
    BY <1>2 DEF Rules, RuleSet
  <2>4. PICK m \in P.depth : m \in DOMAIN Paren
    BY <1>4, <2>3
  <2>5. m = Closes(t0)
    BY <2>2, <2>4 DEF FamRunning, OneParen
  <2>6. QED
    BY <2>4, <2>5
<1>6. terms \in Seq(Value) /\ inner \in Value
  <2>1. P.node \in Value /\ P.child \in 0..Len(rules)
    BY <1>2, Fields
  <2>2. G \in 0..Len(rules)
    BY <1>1, ChainIs DEF FamRunning
  <2>3. QED
    BY <2>1, <2>2, ParenTermsTyped DEF FamRunning, Running
<1>7. Own(arena, Awaited, inner)
  BY <1>2, <1>4 DEF ParenInner, NodeOf, Sole, Own, Undefined
<1>8. /\ DOMAIN terms \subseteq {1, 2}
      /\ \A i \in DOMAIN terms : Own(arena, Awaited, terms[i])
  <2> DEFINE s1   == IF G # 0 /\ rules[G].preval /\ NodeOf(G) # Undefined
                     THEN <<NodeOf(G)>> ELSE << >>
             s2   == IF inner = Undefined THEN << >> ELSE <<inner>>
             held == {v \in {NodeOf(G), inner} : Own(arena, Awaited, v)}
  <2>1. terms = s1 \o s2
    BY DEF ParenTerms
  <2>2. s1 \in Seq(held) /\ Len(s1) <= 1
    <3>1. CASE rules[G].preval
      <4>1. G # 0
        BY <1>1, FamIs
      <4>2. NodeOf(G) \in held
        BY <1>1, <3>1, <4>1 DEF NodeOf
      <4> DEFINE w == NodeOf(G)
      <4>3. s1 = <<w>> \/ s1 = << >>
        BY Zenon
      <4>4. w \in held
        BY <4>2
      <4> HIDE DEF s1, held, w
      <4>5. QED
        BY <4>3, <4>4, OneHeld
    <3>2. CASE ~rules[G].preval
      BY <3>2
    <3>3. QED
      BY <3>1, <3>2
  <2>3. s2 \in Seq(held) /\ Len(s2) <= 1
    <3>1. inner \in held
      BY <1>7
    <3>2. s2 = <<inner>> \/ s2 = << >>
      BY Zenon
    <3> HIDE DEF s2, held, inner
    <3>3. QED
      BY <3>1, <3>2, OneHeld
  <2>4. \A v \in held : Own(arena, Awaited, v)
    OBVIOUS
  <2> HIDE DEF s1, s2, terms, held
  <2>5. /\ Len(terms) = Len(s1) + Len(s2) /\ Len(s1) \in Nat /\ Len(s2) \in Nat /\ terms \in Seq(held)
    BY <2>1, <2>2, <2>3, ConcatProperties, LenProperties
  <2>6. DOMAIN terms = 1..Len(terms) /\ Len(terms) \in Nat /\ \A i \in DOMAIN terms : terms[i] \in held
    BY <2>5, ElementOfSeq, LenProperties
  <2>7. Len(terms) <= 2
    BY <2>2, <2>3, <2>5
  <2>8. \A i \in 1..Len(terms) : i = 1 \/ i = 2
    BY <2>6, <2>7
  <2>9. QED
    BY <2>4, <2>6, <2>8
<1> DEFINE taken == {Root(arena, terms[j]) : j \in {i \in DOMAIN terms : terms[i].k = "node"}}
<1>9. \A x \in taken : x \notin Awaited
  <2> HIDE DEF terms
  <2>1. \A j \in DOMAIN terms : terms[j].k = "node" => Root(arena, terms[j]) \notin Awaited
    BY <1>8 DEF Own
  <2>2. QED
    BY <2>1
<1>10. Known(arena, terms)
  <2> HIDE DEF terms
  <2>1. \A i \in DOMAIN terms : terms[i] \in Value
    BY <1>6, ElementOfSeq, LenProperties
  <2>2. QED
    BY <2>1 DEF Known, Value, Values
<1>11. op.kind \in Brackets
  BY DEF ParenOp, Powered, Brackets
<1>12. \A j \in DOMAIN terms : terms[j].k = "node" => Root(arena, terms[j]) \in taken
  OBVIOUS
<1> HIDE DEF terms, op, taken
<1>13. /\ Sound(b) /\ Extends(arena, b) /\ Grown(arena, b, taken) /\ Free(b, new)
       /\ new \notin DOMAIN arena.nodes /\ Newest(b) = Handle(new) /\ Root(b, Handle(new)) = new
       /\ new \in DOMAIN b.nodes /\ b.nodes[new].op = op
  <2>1. op.kind \in Brackets \/ \A j \in DOMAIN terms : terms[j].k # "node"
    BY <1>11
  <2>2. QED
    BY <1>3, <1>8, <1>10, <1>12, <2>1, NewFam
<1> HIDE DEF b, new
<1>14. Spares(b)
  BY <1>9, <1>13, SparesIs
<1>15. new \notin Awaited
  BY <1>13, FamIs
<1>16. node.k = "node" /\ node.id = new
  BY DEF Handle
<1>17. Foreign(b, node) /\ Sole(b, Awaited, node)
  BY <1>11, <1>13, <1>15, <1>16 DEF Foreign, Sole, Own
<1>18. terms = ParenTerms(P, rules[P.parent].parent)
  BY <1>1 DEF terms
<1>19. QED
  BY <1>5, <1>13, <1>14, <1>16, <1>17, <1>18 DEF b, op, new

LEMMA ParenClosedFam ==
  ASSUME FamRunning, ParenClosed
  PROVE  FamInv'
<1> DEFINE P     == rules[cur]
           E     == Below
           G     == Chain[Height - 2]
           p     == Height - 2
           terms == ParenTerms(P, rules[P.parent].parent)
           own   == Closes(t0) \in P.depth
           node  == IF own THEN Newest(arena') ELSE ParenInner(P)
           R     == [P EXCEPT !.node = node]
           others == [i \in DOMAIN rules |->
                        IF i \in {P.parent, rules[P.parent].parent}
                        THEN [rules[i] EXCEPT !.node = node] ELSE rules[i]]
<1>1. /\ Passing("paren", "close") /\ AcceptsCloser(P) /\ pratt' = pratt
      /\ arena' = IF own THEN NewNode(arena, ParenOp(Closes(t0)), at, terms) ELSE arena
      /\ Pop(R, others, t1)
  BY DEF ParenClosed
<1>2. own /\ arena' = NewNode(arena, ParenOp(Closes(t0)), at, terms)
  BY <1>1, ParenTakesFam
<1>3. /\ node.k = "node" /\ Spares(arena') /\ Foreign(arena', node) /\ Sole(arena', Awaited, node)
  BY <1>1, <1>2, ParenTakesFam
<1> HIDE DEF node, own, terms
<1>4. P.name = "paren" /\ Formed(P) /\ Under("expr")
  BY <1>1, ParenPasses DEF FamRunning
<1>5. R.name = "paren" /\ R.node = node
  BY <1>4 DEF Formed
<1>6. /\ p \in 1..(Height - 1) /\ p + 1 = Height - 1 /\ Chain[Height - 1] = E
      /\ P.parent = E /\ rules[E].parent = G
      /\ rules[E].name = "expr" /\ rules[E].child = cur /\ rules[E].state = "close"
      /\ rules[G].name = "val"
      /\ G \in DOMAIN rules /\ E \in DOMAIN rules /\ G < E /\ E < cur
      /\ G # E /\ G # cur /\ E # cur /\ cur # 0
  BY <1>1, ParenPlace DEF FamRunning
<1>7. /\ Roots(arena, rules, Chain, p) = Awaited
      /\ Roots(arena, rules, Chain, Height - 1) = Awaited
  BY <1>1, PrevalOwn
<1>8. /\ DOMAIN others = DOMAIN rules
      /\ \A r \in DOMAIN rules : others[r] = IF r \in {E, G} THEN [rules[r] EXCEPT !.node = node]
                                            ELSE rules[r]
  BY <1>6
<1>9. IsSeq(others)
  <2> DEFINE S == {others[i] : i \in DOMAIN rules}
  <2>1. Len(rules) \in Nat /\ DOMAIN rules = 1..Len(rules)
    BY ChainIs DEF FamRunning
  <2>2. others \in [1..Len(rules) -> S]
    BY <2>1
  <2> HIDE DEF others, S
  <2>3. others \in Seq(S)
    BY <2>1, <2>2, SeqDef
  <2>4. QED
    BY <2>3 DEF IsSeq
<1> HIDE DEF R, others
<1>10. Height > 1
  BY <1>4 DEF Under, Above
<1>11. status' = "run"
  <2>1. status' # "run" => Height = 1
    BY <1>1, <1>8, <1>9, PopsOver
  <2>2. QED
    BY <1>10, <2>1
<1>12. /\ DOMAIN rules' = DOMAIN rules /\ rules'[cur] = R
       /\ \A r \in DOMAIN rules \ {cur} : rules'[r] = others[r]
       /\ cur' = E /\ Len(Chain') = Height - 1
       /\ \A i \in 1..(Height - 1) : Chain'[i] = Chain[i]
  BY <1>1, <1>8, <1>9, <1>11, PopShape DEF FamRunning
<1>13. /\ Height \in Nat \ {0} /\ Len(Chain) = Height /\ Sorted(rules, Chain)
       /\ Frames(arena, rules, Chain) /\ FamFrames(arena, rules, Chain)
       /\ DOMAIN rules \subseteq Nat \ {0} /\ cur \in DOMAIN rules
       /\ \A r \in DOMAIN rules : Formed(rules[r])
  BY FamIs, ChainIs DEF FamRunning
<1>14. ASSUME NEW r \in {E, G}
       PROVE  /\ rules'[r].node = node /\ rules'[r].name = rules[r].name
              /\ rules'[r].child = rules[r].child /\ rules'[r].state = rules[r].state
  <2>1. rules'[r] = [rules[r] EXCEPT !.node = node] /\ Formed(rules[r])
    BY <1>6, <1>8, <1>12, <1>13
  <2>2. QED
    BY <2>1 DEF Formed
<1>15. \A r \in DOMAIN rules \ {cur, E, G} : rules'[r] = rules[r]
  BY <1>8, <1>12
<1>16. \A r \in DOMAIN rules : r \in DOMAIN rules' /\ rules'[r].name = rules[r].name
  BY <1>4, <1>5, <1>12, <1>14, <1>15
<1>17. /\ p \in Nat \ {0} /\ p - 1 \in 0..(Height - 1) /\ (p - 1) + 1 = p /\ p \in 1..((p - 1) + 1)
       /\ p \in 1..(Height - 1) /\ p + 1 = Height - 1 /\ (Height - 1) - 1 = p
       /\ \A i \in 1..(p - 1) : i \in 1..(Height - 1)
       /\ \A i \in 1..p : i \in 1..(p - 1) \/ i = p
       /\ p - 1 > 0 => p - 1 \in 1..Len(Chain) /\ p \in 1..Len(Chain) /\ p - 1 < p
       /\ ~(p - 1 > 0) => p = 1
       /\ Height - 1 \in 1..(Height - 1)
  BY <1>6, <1>13
<1>18. Chain[p] = G /\ Chain'[p] = G /\ Chain'[Height - 1] = E
  BY <1>6, <1>12, <1>17
<1> HIDE DEF G, p
<1>19. StaysTo(arena', rules', Chain', p - 1)
  <2> DEFINE q == p - 1
  <2>1. \A i \in 1..q : Chain'[i] = Chain[i]
    BY <1>12, <1>17
  <2>2. ASSUME q > 0, NEW r \in DOMAIN rules, r <= Chain[q] PROVE rules'[r] = rules[r]
    <3>1. Chain[q] < G /\ Chain[q] \in DOMAIN rules
      BY <1>13, <1>17, <1>18, <2>2 DEF Frames, Sorted
    <3>2. r # G /\ r # E /\ r # cur
      BY <1>6, <1>13, <2>2, <3>1
    <3>3. QED
      BY <1>15, <3>2
  <2>3. q \in 0..(Height - 1)
    BY <1>17
  <2> HIDE DEF q
  <2>4. StaysTo(arena', rules', Chain', q)
    BY <1>3, <1>16, <2>1, <2>2, <2>3, PassKeeps
  <2>5. QED
    BY <2>4 DEF q
<1>20. /\ \A j \in 1..(p - 1) : FamAt(arena', rules', Chain', j)
       /\ Roots(arena', rules', Chain', p) = Awaited
       /\ p - 1 > 0 => (rules'[Chain'[1]].name # "expr" => Chain'[1] = 1)
  BY <1>7, <1>17, <1>19 DEF StaysTo
<1>21. rules'[G].name = "val" /\ rules'[G].node = node
  BY <1>6, <1>14
<1>22. FamAt(arena', rules', Chain', p)
  <2>1. Own(arena', Roots(arena', rules', Chain', p), node)
    BY <1>3, <1>20 DEF Sole
  <2>2. ~Awaits(rules', G)
    BY <1>21 DEF Awaits
  <2>3. QED
    BY <1>18, <1>21, <2>1, <2>2 DEF FamAt
<1>23. FamFrames(arena', rules', Chain')
  <2>1. rules'[1].name = "val"
    BY <1>13, <1>16, FamIs DEF FamFrames, Lives
  <2>2. rules'[Chain'[1]].name # "expr" => Chain'[1] = 1
    <3>1. CASE p - 1 > 0
      BY <1>20, <3>1
    <3>2. CASE ~(p - 1 > 0)
      <4>1. Chain'[1] = G /\ Chain[1] = G
        BY <1>17, <1>18, <3>2
      <4>2. G = 1
        BY <1>6, <1>13, <4>1 DEF FamFrames
      <4>3. QED
        BY <4>1, <4>2
    <3>3. QED
      BY <3>1, <3>2
  <2>3. \A j \in 1..p : FamAt(arena', rules', Chain', j)
    BY <1>17, <1>20, <1>22
  <2>4. QED
    BY <1>12, <1>17, <2>1, <2>2, <2>3 DEF FamFrames
<1>24. Roots(arena', rules', Chain', Height - 1) = Awaited
  <2>1. Roots(arena', rules', Chain', p + 1) = Roots(arena', rules', Chain', p)
          \cup (IF Awaits(rules', Chain'[p]) THEN {Root(arena', rules'[Chain'[p]].node)} ELSE {})
    <3>1. p \in Nat \ {0}
      BY <1>17
    <3>2. QED
      BY <3>1, RootsNext
  <2>2. ~Awaits(rules', Chain'[p])
    BY <1>18, <1>21 DEF Awaits
  <2>3. QED
    BY <1>17, <1>20, <2>1, <2>2
<1>25. /\ rules'[E].name = "expr" /\ rules'[E].state = "close" /\ rules'[E].node = node
       /\ rules'[E].child = cur /\ rules'[cur].name = "paren" /\ rules'[cur].node = node
  BY <1>5, <1>6, <1>12, <1>14
<1>26. FamClose(arena', rules', Chain', Height - 1)
  <2>1. ~Awaits(rules', E) /\ rules'[E].child # 0
    BY <1>6, <1>25 DEF Awaits
  <2>2. Chain'[Height - 1] = E
    BY <1>18
  <2>3. QED
    BY <1>3, <1>24, <1>25, <2>1, <2>2 DEF FamClose
<1>27. FamTop(arena', rules', Chain', t0', pratt')
  BY <1>12, <1>18, <1>25, <1>26 DEF FamTop
<1>28. Covered(arena') /\ Kindred(arena')
  BY <1>3 DEF Spares
<1>29. QED
  BY <1>11, <1>23, <1>27, <1>28, FamNext

(***************************************************************************)
(* Every pass.                                                             *)
(***************************************************************************)
LEMMA HaltFam ==
  ASSUME FamInv, NEW how \in {"error", "base", "cancel"}, Halt(how)
  PROVE  FamInv'
<1>1. arena' = arena /\ status' = how /\ how # "run" /\ how # "done"
  BY DEF Halt
<1>2. Covered(arena) /\ Kindred(arena)
  BY DEF FamInv
<1>3. QED
  BY <1>1, <1>2, FamNext

LEMMA StepFam ==
  ASSUME TypeInv, NoTernaries, OneParen, SuffixesBelowMax, ChainInv, FamInv, [Next]_vars
  PROVE  FamInv'
<1>1. CASE UNCHANGED vars
  BY <1>1 DEF vars, FamInv, SameResult, Chain, t0, Tok
<1>2. CASE Next /\ status # "run"
  <2>1. UNCHANGED vars
    BY <1>2 DEF Next, Val_, Expr_, Paren_, Ternary_, Base_, Over, Cancel, Passing, Pratting,
       ValOpenPrefix, ValOpenPreval, ValOpenParen, ValOpenValue, ValOpenEnd, ValOpenElsewhere,
       ValCloseTernary, ValCloseOperator, ValCloseChain, ValClosePop, ValCloseBase,
       ExprOpenParen, ExprOpenEmbed, ExprOpenPrior, PrattLooser, PrattDrill, PrattTighter,
       PrattPrefix, ExprCloseReplace, ExprClosePop, ExprCloseEnd, ExprCloseBase,
       ParenOpenEmpty, ParenOpenVal, ParenClosed, ParenError,
       TernaryOpenFirst, TernaryOpenStep, TernaryCloseThen, TernaryError, TernaryCloseBase,
       TernaryCloseElse
  <2>2. QED
    BY <1>1, <2>1
<1>3. CASE Next /\ status = "run"
  <2>1. Running /\ FamRunning
    BY <1>3 DEF Running, FamRunning
  <2>2. CASE Val_
    <3>1. CASE ValOpenElsewhere
      BY <3>1, HaltFam DEF ValOpenElsewhere
    <3>2. QED
      BY <2>1, <2>2, <3>1, NoTernaryTaken, ValOpenPrefixFam, ValOpenPrevalFam,
         ValOpenParenFam, ValOpenValueFam, ValOpenEndFam, ValCloseOperatorFam,
         ValCloseChainFam, ValClosePopFam DEF Val_
  <2>3. CASE Expr_
    BY <2>1, <2>3, ExprOpenParenFam, ExprOpenEmbedFam, ExprOpenPriorFam, PrattLooserFam,
       PrattDrillFam, PrattTighterFam, PrattPrefixFam, ExprCloseReplaceFam,
       ExprClosePopFam DEF Expr_
  <2>4. CASE Paren_
    <3>1. CASE ParenError
      BY <3>1, HaltFam DEF ParenError
    <3>2. QED
      BY <2>1, <2>4, <3>1, ParenOpenEmptyFam, ParenOpenValFam, ParenClosedFam DEF Paren_
  <2>5. CASE ValCloseBase
    BY <2>5, HaltFam DEF ValCloseBase
  <2>6. CASE ExprCloseBase
    BY <2>1, <2>6, ExprCloseBaseFam
  <2>7. CASE ExprCloseEnd
    BY <2>1, <2>7, ExprCloseEndFam
  <2>8. CASE Cancel
    BY <2>8, HaltFam DEF Cancel
  <2>9. ~Over
    BY <1>3 DEF Over
  <2>10. QED
    BY <1>3, <2>1, <2>2, <2>3, <2>4, <2>5, <2>6, <2>7, <2>8, <2>9, NoTernaryTaken DEF Next, Base_
<1>4. QED
  BY <1>1, <1>2, <1>3

LEMMA InitFam ==
  ASSUME Init
  PROVE  FamInv
<1>1. /\ arena = EmptyArena /\ rules = <<Rule0>> /\ stack = << >> /\ cur = 1
      /\ pratt = NoCall /\ status = "run"
  BY DEF Init, InitWith
<1>2. Covered(arena) /\ Kindred(arena)
  BY <1>1 DEF Covered, Kindred, EmptyArena
<1>3. Chain = <<1>> /\ Len(Chain) = 1 /\ Chain[1] = 1
  BY <1>1 DEF Chain
<1>4. rules[1].name = "val" /\ rules[1].state = "open" /\ rules[1].node = Undefined
  BY <1>1 DEF Rule0, Rule
<1>5. FamFrames(arena, rules, Chain)
  BY <1>3, <1>4 DEF FamFrames
<1>6. FamVal(arena, rules, Chain, 1)
  <2>1. ~Above(rules, Chain, 1, "expr")
    BY DEF Above
  <2>2. Sole(arena, Roots(arena, rules, Chain, 1), rules[1].node)
    BY <1>4 DEF Sole, Own, Undefined
  <2>3. QED
    BY <1>3, <1>4, <2>1, <2>2 DEF FamVal
<1>7. FamTop(arena, rules, Chain, t0, pratt)
  BY <1>3, <1>4, <1>6 DEF FamTop
<1>8. QED
  BY <1>1, <1>2, <1>5, <1>7 DEF FamInv, SameResult

(***************************************************************************)
(* What a parse hands back.                                                *)
(***************************************************************************)
LEMMA AlwaysFam ==
  ASSUME NoTernaries, OneParen, SuffixesBelowMax
  PROVE  Spec => [](TypeInv /\ FamInv)
<1>1. Init => ChainInv /\ FamInv
  BY InitChain, InitFam
<1>2. TypeInv /\ ChainInv /\ [Next]_vars => ChainInv'
  BY StepChain
<1>3. TypeInv /\ ChainInv /\ FamInv /\ [Next]_vars => FamInv'
  BY StepFam
<1>4. Spec => []TypeInv
  BY AlwaysTypeInv
<1>5. QED
  BY <1>1, <1>2, <1>3, <1>4, PTL DEF Spec

\* The size a root counts is the size of its whole expression: whatever operand
\* or paren prattify, prior_expr or a closing rule puts in it, it counts all the
\* nodes that are reached from it.
THEOREM AlwaysSizeCoversTree ==
  NoTernaries /\ OneParen /\ SuffixesBelowMax => (Spec => []SizeCoversTree)
<1> SUFFICES ASSUME NoTernaries, OneParen, SuffixesBelowMax PROVE Spec => []SizeCoversTree
  OBVIOUS
<1>1. TypeInv /\ FamInv => SizeCoversTree
  <2> SUFFICES ASSUME TypeInv, FamInv, NEW i \in DOMAIN arena.nodes
               PROVE  Cardinality(Tree(arena, Handle(arena.nodes[i].root)))
                        <= arena.nodes[arena.nodes[i].root].size
    BY DEF SizeCoversTree
  <2> DEFINE r == arena.nodes[i].root
  <2>1. Sound(arena) /\ Covered(arena)
    BY DEF TypeInv, PrattInv, FamInv
  <2>2. r \in DOMAIN arena.nodes /\ arena.nodes[r].root = r
    BY <2>1, Sizes
  <2>3. Live(arena, Handle(r)) /\ Root(arena, Handle(r)) = r
    BY <2>2 DEF Live, Handle, Root
  <2> HIDE DEF r
  <2>4. Cardinality(Tree(arena, Handle(r))) <= arena.nodes[r].size
    BY <2>1, <2>3, TreeCovered
  <2>5. QED
    BY <2>4 DEF r
<1>2. Spec => [](TypeInv /\ FamInv)
  BY AlwaysFam
<1>3. QED
  BY <1>1, <1>2, PTL

\* NODE_LIMIT bounds the result of a parse: one with more nodes than that, read
\* anywhere in the tree handed back, has raised the flag that makes it an error.
THEOREM AlwaysOversizeFlagged ==
  NoTernaries /\ OneParen /\ SuffixesBelowMax => (Spec => []OversizeFlagged)
<1> SUFFICES ASSUME NoTernaries, OneParen, SuffixesBelowMax PROVE Spec => []OversizeFlagged
  OBVIOUS
<1>1. TypeInv /\ FamInv => OversizeFlagged
  <2> SUFFICES ASSUME TypeInv, FamInv, Cardinality(Tree(arena, result)) > NodeLimit
               PROVE  arena.over_limit
    BY DEF OversizeFlagged
  <2>1. Sound(arena) /\ Covered(arena) /\ NodeLimit \in Nat
    BY NodeLimitAssumption DEF TypeInv, PrattInv, FamInv
  <2>2. CASE Live(arena, result)
    <3> DEFINE r == Root(arena, result)
               n == Cardinality(Tree(arena, result))
    <3>1. r \in DOMAIN arena.nodes /\ arena.nodes[r].size \in Nat /\ n \in Nat
          /\ n <= arena.nodes[r].size
      BY <2>1, <2>2, TreeCovered
    <3>2. n > NodeLimit
      OBVIOUS
    <3> HIDE DEF r, n
    <3>3. arena.nodes[r].size > NodeLimit
      BY <2>1, <3>1, <3>2
    <3>4. QED
      BY <2>1, <3>1, <3>3 DEF Sound, Flagged
  <2>3. CASE ~Live(arena, result)
    <3>1. Tree(arena, result) = {}
      BY <2>3 DEF Tree, IsOp
    <3>2. Cardinality(Tree(arena, result)) = 0
      BY <3>1, FS_EmptySet
    <3>3. QED
      BY <2>1, <3>2
  <2>4. QED
    BY <2>2, <2>3
<1>2. Spec => [](TypeInv /\ FamInv)
  BY AlwaysFam
<1>3. QED
  BY <1>1, <1>2, PTL

\* The first rule of the outermost chain, where the canonical engine reads the
\* result, holds what the last one holds when it pops: however the expression was
\* wrapped or folded meanwhile, the val of its first term has its root.
THEOREM AlwaysSameResult ==
  NoTernaries /\ OneParen /\ SuffixesBelowMax => (Spec => []SameResult)
<1> SUFFICES ASSUME NoTernaries, OneParen, SuffixesBelowMax PROVE Spec => []SameResult
  OBVIOUS
<1>1. FamInv => SameResult
  BY DEF FamInv
<1>2. Spec => [](TypeInv /\ FamInv)
  BY AlwaysFam
<1>3. QED
  BY <1>1, <1>2, PTL
=============================================================================
