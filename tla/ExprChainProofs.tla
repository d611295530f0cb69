-------------------------- MODULE ExprChainProofs --------------------------
(***************************************************************************)
(* No node is ever part of itself, in a table without ternaries.           *)
(*                                                                         *)
(* The rules that wait, with the current one on top, are a chain.  An      *)
(* expression on it that awaits an operand draws a line through the arena  *)
(* (Mark), and whatever is above it on the chain holds values beyond that  *)
(* line, or the expression itself, handed down to its operand's val.       *)
(***************************************************************************)
EXTENDS ExprTreeProofs

\* An expr waits for the operand it pushed a val to read.
Awaits(rs, r) == rs[r].name = "expr" /\ rs[r].child # 0 /\ rs[rs[r].child].name = "val"

\* The lines drawn below position j of a chain.
Marks(a, rs, ch, j) == {Mark(a, rs[ch[i]].node) : i \in {k \in 1..(j - 1) : Awaits(rs, ch[k])}}

\* The rule below position j has this name.
Above(rs, ch, j, name) == j > 1 /\ rs[ch[j - 1]].name = name

Linked(rs, r) == IF r = 0 THEN Undefined
                 ELSE IF rs[r].attach.k = "node" THEN rs[r].attach ELSE rs[r].node

\* A val: its node is what it was seeded with, or beyond every line.
ValHolds(a, rs, ch, j) ==
  LET V == rs[ch[j]]
  IN  /\ \/ Beyond(Marks(a, rs, ch, j), V.node)
         \/ Above(rs, ch, j, "expr") /\ V.node = rs[ch[j - 1]].node
      /\ V.preval => Beyond(Marks(a, rs, ch, j), V.node)
      /\ j > 1 => Above(rs, ch, j, "expr") \/ Above(rs, ch, j, "paren")
      /\ Above(rs, ch, j, "expr") => V.n.expr # 0
      /\ V.parent = IF j = 1 THEN 0 ELSE ch[j - 1]

\* Where an expr that replaced the first term of its expression may look for it.
Apart(a, rs, ch, j) == /\ ~Above(rs, ch, j, "val") /\ rs[ch[j]].parent < ch[j]
                       /\ Beyond(Marks(a, rs, ch, j), Linked(rs, rs[ch[j]].parent))

\* An expr that awaits an operand.  A prefix of its own is below a val that holds
\* the whole expression; any other operator replaced the val of its first term.
ExprHolds(a, rs, ch, j) ==
  LET E == rs[ch[j]]
  IN  /\ E.node = E.attach /\ Firm(a, E.node) /\ Beyond(Marks(a, rs, ch, j), E.node)
      /\ \/ Above(rs, ch, j, "val") /\ E.n.prefix # 0 /\ rs[ch[j - 1]].node.k = "node"
         \/ Apart(a, rs, ch, j)

\* A rule that waits.
Waits(a, rs, ch, j) ==
  LET R == rs[ch[j]]
  IN  /\ R.state = "close"
      /\ \/ R.name = "val" /\ ValHolds(a, rs, ch, j)
         \/ Awaits(rs, ch[j]) /\ ExprHolds(a, rs, ch, j)
         \/ /\ R.name = "expr" /\ R.child # 0 /\ rs[R.child].name = "paren"
            /\ Above(rs, ch, j, "val")
         \/ R.name = "paren" /\ R.node = Undefined /\ Above(rs, ch, j, "expr")

\* What a paren read: the val it pushed, that val having been replaced since.
Inside(a, rs, ch, j) ==
  LET P == rs[ch[j]]
  IN  /\ P.child # 0 /\ rs[P.child].name = "val" /\ rs[P.child].node # Undefined
      /\ Beyond(Marks(a, rs, ch, j), rs[P.child].node)

\* A rule that waits, and the one above it.
Pushed(a, rs, ch, j) ==
  LET R == rs[ch[j]]
      s == ch[j + 1]
  IN  /\ R.name = "val" => /\ R.child = s /\ rs[s].name = "expr" /\ rs[s].parent = ch[j]
                           /\ R.node.k = "node" \/ Beyond(Marks(a, rs, ch, j), rs[s].node)
      /\ R.name = "expr" => R.child = s /\ (rs[s].name = "paren" => rs[s].parent = ch[j])
      /\ R.name = "paren" => \/ R.child = s /\ rs[s].name = "val"
                             \/ R.child < s /\ rs[s].name = "expr" /\ Inside(a, rs, ch, j)

\* The chain below its top.
Frames(a, rs, ch) ==
  /\ \A i, j \in 1..Len(ch) : i < j => ch[i] < ch[j]
  /\ \A j \in 1..(Len(ch) - 1) : Waits(a, rs, ch, j) /\ Pushed(a, rs, ch, j)

(***************************************************************************)
(* What a pass leaves of the chain up to position p: the rules made before *)
(* the one at p + 1 are as they were, but for vals whose node has become a *)
(* new one, and the lines stand.                                           *)
(***************************************************************************)
Alike(R, S) == /\ R.name = S.name /\ R.state = S.state /\ R.n = S.n /\ R.parent = S.parent
               /\ R.child = S.child /\ R.attach = S.attach /\ R.preval = S.preval

Refilled(a, rs, qs, ch, p, r) ==
  /\ rs[r].name = "val" /\ rs[r].attach = Undefined /\ qs[r].node # Undefined
  /\ Beyond(Marks(a, rs, ch, p + 1), qs[r].node)
  /\ qs[r].node.k = "node" \/ r = ch[p]

Leaves(a, b, rs, qs, ch, dh, p) ==
  /\ p \in Nat /\ p < Len(ch)
  /\ \A i \in 1..p : dh[i] = ch[i]
  /\ \A r \in DOMAIN rs : r \in DOMAIN qs /\ qs[r].name = rs[r].name
  /\ \A r \in DOMAIN rs : r < ch[p + 1] =>
       Alike(qs[r], rs[r]) /\ (qs[r].node = rs[r].node \/ Refilled(a, rs, qs, ch, p, r))
  /\ \A i \in 1..p : Awaits(rs, ch[i]) => Steady(a, b, rs[ch[i]].node)

\* The chain names rules, and rules name rules.
Sorted(rs, ch) ==
  /\ DOMAIN rs \subseteq Nat \ {0} /\ Len(ch) \in Nat
  /\ \A j \in 1..Len(ch) : ch[j] \in DOMAIN rs
  /\ \A r \in DOMAIN rs : rs[r].child \in DOMAIN rs \cup {0} /\ rs[r].parent \in DOMAIN rs \cup {0}

LEMMA LeftBelow ==
  ASSUME NEW a, NEW b, NEW rs, NEW qs, NEW ch, NEW dh, NEW p, Sorted(rs, ch),
         Frames(a, rs, ch), Leaves(a, b, rs, qs, ch, dh, p)
  PROVE  \A i \in 1..p :
           /\ ch[i] \in DOMAIN rs /\ ch[i] < ch[p + 1] /\ dh[i] = ch[i]
           /\ Alike(qs[ch[i]], rs[ch[i]])
           /\ \/ qs[ch[i]].node = rs[ch[i]].node
              \/ Refilled(a, rs, qs, ch, p, ch[i])
           /\ Awaits(qs, dh[i]) <=> Awaits(rs, ch[i])
           /\ Awaits(rs, ch[i]) => /\ qs[dh[i]].node = rs[ch[i]].node
                                   /\ Steady(a, b, rs[ch[i]].node)
<1> SUFFICES ASSUME NEW i \in 1..p
             PROVE  /\ ch[i] \in DOMAIN rs /\ ch[i] < ch[p + 1] /\ dh[i] = ch[i]
                    /\ Alike(qs[ch[i]], rs[ch[i]])
                    /\ \/ qs[ch[i]].node = rs[ch[i]].node
                       \/ Refilled(a, rs, qs, ch, p, ch[i])
                    /\ Awaits(qs, dh[i]) <=> Awaits(rs, ch[i])
                    /\ Awaits(rs, ch[i]) => /\ qs[dh[i]].node = rs[ch[i]].node
                                            /\ Steady(a, b, rs[ch[i]].node)
  OBVIOUS
<1>1. i \in 1..Len(ch) /\ p + 1 \in 1..Len(ch) /\ i < p + 1
  BY DEF Leaves, Sorted
<1>2. ch[i] \in DOMAIN rs /\ ch[i] < ch[p + 1] /\ dh[i] = ch[i]
  BY <1>1 DEF Leaves, Sorted, Frames
<1>3. /\ Alike(qs[ch[i]], rs[ch[i]])
      /\ \/ qs[ch[i]].node = rs[ch[i]].node
         \/ Refilled(a, rs, qs, ch, p, ch[i])
  BY <1>2 DEF Leaves
<1>4. rs[ch[i]].child = 0 \/ qs[rs[ch[i]].child].name = rs[rs[ch[i]].child].name
  BY <1>2 DEF Leaves, Sorted
<1>5. Awaits(qs, dh[i]) <=> Awaits(rs, ch[i])
  BY <1>2, <1>3, <1>4 DEF Alike, Awaits
<1>6. ASSUME Awaits(rs, ch[i])
      PROVE  qs[dh[i]].node = rs[ch[i]].node /\ Steady(a, b, rs[ch[i]].node)
  BY <1>2, <1>3, <1>6 DEF Leaves, Awaits, Refilled
<1>7. QED
  BY <1>2, <1>3, <1>5, <1>6

LEMMA LeftMarks ==
  ASSUME NEW a, NEW b, NEW rs, NEW qs, NEW ch, NEW dh, NEW p, Sorted(rs, ch),
         Frames(a, rs, ch), Leaves(a, b, rs, qs, ch, dh, p), NEW j \in 1..(p + 1)
  PROVE  /\ Marks(b, qs, dh, j) = Marks(a, rs, ch, j)
         /\ \A name : Above(qs, dh, j, name) <=> Above(rs, ch, j, name)
         /\ Marks(a, rs, ch, j) \subseteq Marks(a, rs, ch, p + 1)
<1>1. p \in Nat
  BY DEF Leaves
<1> DEFINE was == {k \in 1..(j - 1) : Awaits(rs, ch[k])}
           now == {k \in 1..(j - 1) : Awaits(qs, dh[k])}
<1>2. \A k \in 1..(j - 1) : k \in 1..p
  BY <1>1
<1>3. /\ was = now
      /\ \A k \in was : Mark(b, qs[dh[k]].node) = Mark(a, rs[ch[k]].node)
  BY <1>2, LeftBelow DEF Steady
<1>4. Marks(b, qs, dh, j) = Marks(a, rs, ch, j)
  BY <1>3 DEF Marks
<1>5. \A name : Above(qs, dh, j, name) <=> Above(rs, ch, j, name)
  <2>1. j > 1 => j - 1 \in 1..p
    BY <1>1
  <2>2. j > 1 => qs[dh[j - 1]].name = rs[ch[j - 1]].name
    BY <2>1, LeftBelow DEF Alike
  <2>3. QED
    BY <2>2 DEF Above
<1>6. Marks(a, rs, ch, j) \subseteq Marks(a, rs, ch, p + 1)
  <2>1. \A k \in 1..(j - 1) : k \in 1..((p + 1) - 1)
    BY <1>1
  <2>2. QED
    BY <2>1 DEF Marks
<1>7. QED
  BY <1>4, <1>5, <1>6

LEMMA BeyondFewer ==
  ASSUME NEW Ms, NEW Ns, Ms \subseteq Ns, NEW v, Beyond(Ns, v)
  PROVE  Beyond(Ms, v)
BY DEF Beyond

LEMMA LeftLinked ==
  ASSUME NEW a, NEW b, NEW rs, NEW qs, NEW ch, NEW dh, NEW p, Sorted(rs, ch),
         Frames(a, rs, ch), Leaves(a, b, rs, qs, ch, dh, p), NEW j \in 1..(p + 1),
         NEW r \in DOMAIN rs \cup {0}, r < ch[p + 1],
         Beyond(Marks(a, rs, ch, j), Linked(rs, r))
  PROVE  Beyond(Marks(b, qs, dh, j), Linked(qs, r))
<1>1. Marks(b, qs, dh, j) = Marks(a, rs, ch, j)
      /\ Marks(a, rs, ch, j) \subseteq Marks(a, rs, ch, p + 1)
  BY LeftMarks
<1>2. CASE r = 0
  BY <1>1, <1>2 DEF Linked, Beyond, Undefined
<1>3. CASE r # 0
  <2>1. /\ Alike(qs[r], rs[r])
        /\ qs[r].node = rs[r].node \/ Refilled(a, rs, qs, ch, p, r)
    BY <1>3 DEF Leaves
  <2>2. CASE qs[r].node = rs[r].node
    BY <1>1, <1>3, <2>1, <2>2 DEF Linked, Alike
  <2>3. CASE Refilled(a, rs, qs, ch, p, r)
    <3>1. Linked(qs, r) = qs[r].node
      BY <1>3, <2>1, <2>3 DEF Linked, Alike, Refilled, Undefined
    <3>2. QED
      BY <1>1, <2>3, <3>1, BeyondFewer DEF Refilled
  <2>4. QED
    BY <2>1, <2>2, <2>3
<1>4. QED
  BY <1>2, <1>3

LEMMA LeftWaits ==
  ASSUME NEW a, NEW b, NEW rs, NEW qs, NEW ch, NEW dh, NEW p, Sorted(rs, ch),
         Frames(a, rs, ch), Leaves(a, b, rs, qs, ch, dh, p), NEW j \in 1..p
  PROVE  Waits(b, qs, dh, j)
<1> DEFINE R == rs[ch[j]]
           Q == qs[dh[j]]
<1>1. p \in Nat /\ p < Len(ch) /\ Len(ch) \in Nat
  BY DEF Leaves, Sorted
<1>2. Waits(a, rs, ch, j)
  BY <1>1 DEF Frames
<1>3. /\ ch[j] \in DOMAIN rs /\ ch[j] < ch[p + 1] /\ dh[j] = ch[j] /\ Alike(Q, R)
      /\ Q.node = R.node \/ Refilled(a, rs, qs, ch, p, ch[j])
      /\ Awaits(qs, dh[j]) <=> Awaits(rs, ch[j])
      /\ Awaits(rs, ch[j]) => Q.node = R.node /\ Steady(a, b, R.node)
  BY LeftBelow
<1>4. /\ Marks(b, qs, dh, j) = Marks(a, rs, ch, j)
      /\ \A name : Above(qs, dh, j, name) <=> Above(rs, ch, j, name)
      /\ Marks(a, rs, ch, j) \subseteq Marks(a, rs, ch, p + 1)
  BY <1>1, LeftMarks
<1>5. ASSUME j > 1
      PROVE  /\ dh[j - 1] = ch[j - 1] /\ ch[j - 1] # ch[p]
             /\ \/ qs[dh[j - 1]].node = rs[ch[j - 1]].node
                \/ Refilled(a, rs, qs, ch, p, ch[j - 1])
  <2>1. j - 1 \in 1..p /\ p \in 1..Len(ch) /\ j - 1 \in 1..Len(ch) /\ j - 1 < p
    BY <1>1, <1>5
  <2>2. ch[j - 1] # ch[p]
    <3>1. ch[j - 1] < ch[p] /\ ch[j - 1] \in Nat /\ ch[p] \in Nat
      BY <2>1 DEF Frames, Sorted
    <3>2. QED
      BY <3>1
  <2>3. QED
    BY <2>1, <2>2, LeftBelow
<1>6. Q.name = R.name /\ Q.state = R.state /\ Q.n = R.n /\ Q.parent = R.parent
      /\ Q.child = R.child /\ Q.attach = R.attach /\ Q.preval = R.preval
  BY <1>3 DEF Alike
<1> HIDE DEF R, Q
<1>7. ASSUME R.name = "val", ValHolds(a, rs, ch, j)
      PROVE  ValHolds(b, qs, dh, j)
  <2>1. Beyond(Marks(a, rs, ch, j), R.node) => Beyond(Marks(b, qs, dh, j), Q.node)
    BY <1>3, <1>4, BeyondFewer DEF Refilled, R, Q
  <2>2. \/ Beyond(Marks(b, qs, dh, j), Q.node)
        \/ Above(qs, dh, j, "expr") /\ Q.node = qs[dh[j - 1]].node
    <3>1. CASE Refilled(a, rs, qs, ch, p, ch[j])
      BY <1>3, <1>4, <3>1, BeyondFewer DEF Refilled, Q
    <3>2. CASE Q.node = R.node /\ Above(rs, ch, j, "expr") /\ R.node = rs[ch[j - 1]].node
      <4>1. j > 1 /\ rs[ch[j - 1]].name = "expr"
        BY <3>2 DEF Above
      <4>2. qs[dh[j - 1]].node = rs[ch[j - 1]].node
        BY <1>5, <4>1 DEF Refilled
      <4>3. QED
        BY <1>4, <3>2, <4>2
    <3>3. QED
      BY <1>3, <1>7, <2>1, <3>1, <3>2 DEF ValHolds, R
  <2>3. Q.preval => Beyond(Marks(b, qs, dh, j), Q.node)
    BY <1>6, <1>7, <2>1 DEF ValHolds, R
  <2>4. Q.parent = IF j = 1 THEN 0 ELSE dh[j - 1]
    BY <1>5, <1>6, <1>7 DEF ValHolds, R
  <2>5. QED
    BY <1>4, <1>6, <1>7, <2>2, <2>3, <2>4 DEF ValHolds, R, Q
<1>8. ASSUME Awaits(rs, ch[j]), ExprHolds(a, rs, ch, j)
      PROVE  ExprHolds(b, qs, dh, j)
  <2>1. Q.node = R.node /\ Firm(b, Q.node) /\ Q.node = Q.attach
    BY <1>3, <1>6, <1>8 DEF Steady, ExprHolds, R
  <2>2. Beyond(Marks(b, qs, dh, j), Q.node)
    BY <1>4, <1>8, <2>1 DEF ExprHolds, R
  <2>3. CASE Above(rs, ch, j, "val") /\ R.n.prefix # 0 /\ rs[ch[j - 1]].node.k = "node"
    <3>1. j > 1
      BY <2>3 DEF Above
    <3>2. qs[dh[j - 1]].node.k = "node"
      BY <1>5, <2>3, <3>1 DEF Refilled
    <3>3. QED
      BY <1>4, <1>6, <2>1, <2>2, <2>3, <3>2 DEF ExprHolds, Q
  <2>4. CASE Apart(a, rs, ch, j)
    <3>1. R.parent < ch[j] /\ R.parent \in DOMAIN rs \cup {0} /\ R.parent < ch[p + 1]
      <4>1. R.parent < ch[j] /\ R.parent \in DOMAIN rs \cup {0}
        BY <1>3, <2>4 DEF Apart, R, Sorted
      <4>2. ch[p + 1] \in DOMAIN rs /\ DOMAIN rs \subseteq Nat \ {0}
        BY <1>1 DEF Sorted
      <4>3. QED
        BY <1>3, <4>1, <4>2
    <3>2. Beyond(Marks(b, qs, dh, j), Linked(qs, R.parent))
      <4>1. j \in 1..(p + 1) /\ Beyond(Marks(a, rs, ch, j), Linked(rs, R.parent))
        BY <1>1, <2>4 DEF Apart, R
      <4>2. QED
        BY <3>1, <4>1, LeftLinked
    <3>3. Apart(b, qs, dh, j)
      BY <1>3, <1>4, <1>6, <2>4, <3>1, <3>2 DEF Apart, Q
    <3>4. QED
      BY <2>1, <2>2, <3>3 DEF ExprHolds, Q
  <2>5. QED
    BY <1>8, <2>3, <2>4 DEF ExprHolds, R
<1>9. R.child = 0 \/ qs[R.child].name = rs[R.child].name
  BY <1>3 DEF Leaves, Sorted, R
<1>10. CASE R.name = "val" /\ ValHolds(a, rs, ch, j)
  BY <1>2, <1>6, <1>7, <1>10 DEF Waits, R, Q
<1>11. CASE Awaits(rs, ch[j]) /\ ExprHolds(a, rs, ch, j)
  BY <1>2, <1>3, <1>6, <1>8, <1>11 DEF Waits, R, Q
<1>12. CASE R.name = "expr" /\ R.child # 0 /\ rs[R.child].name = "paren" /\ Above(rs, ch, j, "val")
  BY <1>2, <1>4, <1>6, <1>9, <1>12 DEF Waits, R, Q
<1>13. CASE R.name = "paren" /\ R.node = Undefined /\ Above(rs, ch, j, "expr")
  <2>1. Q.node = Undefined
    BY <1>3, <1>13 DEF Refilled, R
  <2>2. QED
    BY <1>2, <1>4, <1>6, <1>13, <2>1 DEF Waits, R, Q
<1>14. QED
  BY <1>2, <1>10, <1>11, <1>12, <1>13 DEF Waits, R

LEMMA MarksNext ==
  ASSUME NEW a, NEW rs, NEW ch, NEW j \in Nat \ {0}
  PROVE  Marks(a, rs, ch, j + 1) =
           Marks(a, rs, ch, j) \cup (IF Awaits(rs, ch[j]) THEN {Mark(a, rs[ch[j]].node)} ELSE {})
<1> DEFINE was == {k \in 1..(j - 1) : Awaits(rs, ch[k])}
           now == {k \in 1..((j + 1) - 1) : Awaits(rs, ch[k])}
<1>1. now = was \cup (IF Awaits(rs, ch[j]) THEN {j} ELSE {})
  OBVIOUS
<1>2. Marks(a, rs, ch, j + 1) = {Mark(a, rs[ch[i]].node) : i \in now}
      /\ Marks(a, rs, ch, j) = {Mark(a, rs[ch[i]].node) : i \in was}
  BY DEF Marks
<1> HIDE DEF was, now
<1>3. QED
  BY <1>1, <1>2

LEMMA LeftInside ==
  ASSUME NEW a, NEW b, NEW rs, NEW qs, NEW ch, NEW dh, NEW p, Sorted(rs, ch),
         Frames(a, rs, ch), Leaves(a, b, rs, qs, ch, dh, p), NEW j \in 1..p,
         Inside(a, rs, ch, j), rs[ch[j]].child < ch[j + 1]
  PROVE  /\ Inside(b, qs, dh, j) /\ rs[ch[j]].child < ch[p + 1]
         /\ qs[dh[j]].child = rs[ch[j]].child
<1> DEFINE c == rs[ch[j]].child
<1>1. p \in Nat /\ p < Len(ch) /\ Len(ch) \in Nat /\ p + 1 \in 1..Len(ch) /\ j + 1 \in 1..Len(ch)
  BY DEF Leaves, Sorted
<1>2. ch[j] \in DOMAIN rs /\ dh[j] = ch[j] /\ qs[dh[j]].child = c
  BY LeftBelow DEF Alike
<1>3. c \in DOMAIN rs /\ c < ch[p + 1]
  <2>1. c \in DOMAIN rs /\ c # 0
    BY <1>2 DEF Sorted, Inside
  <2>2. ch[j + 1] = ch[p + 1] \/ ch[j + 1] < ch[p + 1]
    BY <1>1 DEF Frames
  <2>3. c \in Nat /\ ch[j + 1] \in Nat /\ ch[p + 1] \in Nat
    BY <1>1, <2>1 DEF Sorted
  <2>4. QED
    BY <2>1, <2>2, <2>3
<1>4. /\ Alike(qs[c], rs[c])
      /\ qs[c].node = rs[c].node \/ Refilled(a, rs, qs, ch, p, c)
  BY <1>3 DEF Leaves
<1>5. /\ Marks(b, qs, dh, j) = Marks(a, rs, ch, j)
      /\ Marks(a, rs, ch, j) \subseteq Marks(a, rs, ch, p + 1)
  BY <1>1, LeftMarks
<1>6. qs[c].name = "val" /\ c # 0
  BY <1>4 DEF Alike, Inside
<1>7. qs[c].node # Undefined /\ Beyond(Marks(b, qs, dh, j), qs[c].node)
  <2>1. CASE qs[c].node = rs[c].node
    BY <1>5, <2>1 DEF Inside
  <2>2. CASE Refilled(a, rs, qs, ch, p, c)
    BY <1>5, <2>2, BeyondFewer DEF Refilled
  <2>3. QED
    BY <1>4, <2>1, <2>2
<1>8. QED
  BY <1>2, <1>3, <1>6, <1>7 DEF Inside

\* What holds of a waiting rule and the one above it goes on holding, where the
\* one above it is the same.
LEMMA LeftPushed ==
  ASSUME NEW a, NEW b, NEW rs, NEW qs, NEW ch, NEW dh, NEW p, Sorted(rs, ch),
         Frames(a, rs, ch), Leaves(a, b, rs, qs, ch, dh, p), NEW j \in 1..p,
         dh[j + 1] = ch[j + 1],
         qs[ch[j + 1]].name = rs[ch[j + 1]].name,
         rs[ch[j]].name \in {"val", "expr"} => qs[ch[j + 1]].parent = rs[ch[j + 1]].parent,
         rs[ch[j]].name = "val" => \/ qs[ch[j]].node.k = "node"
                                   \/ Beyond(Marks(a, rs, ch, j), qs[ch[j + 1]].node)
  PROVE  Pushed(b, qs, dh, j)
<1> DEFINE R == rs[ch[j]]
           Q == qs[dh[j]]
           s == ch[j + 1]
<1>1. p \in Nat /\ p < Len(ch) /\ Len(ch) \in Nat /\ j \in 1..(Len(ch) - 1)
  BY DEF Leaves, Sorted
<1>2. Pushed(a, rs, ch, j)
  BY <1>1 DEF Frames
<1>3. ch[j] \in DOMAIN rs /\ dh[j] = ch[j] /\ Q.name = R.name /\ Q.child = R.child
  BY LeftBelow DEF Alike
<1>4. Marks(b, qs, dh, j) = Marks(a, rs, ch, j)
  BY <1>1, LeftMarks
<1>5. dh[j + 1] = s /\ qs[s].name = rs[s].name
      /\ (R.name \in {"val", "expr"} => qs[s].parent = rs[s].parent)
      /\ (R.name = "val" => Q.node.k = "node" \/ Beyond(Marks(b, qs, dh, j), qs[s].node))
  BY <1>3, <1>4
<1>6. Inside(a, rs, ch, j) /\ R.child < s => Inside(b, qs, dh, j)
  BY LeftInside
<1> HIDE DEF R, Q, s
<1>7. ASSUME R.name = "val"
      PROVE  /\ Q.child = s /\ qs[s].name = "expr" /\ qs[s].parent = ch[j]
             /\ Q.node.k = "node" \/ Beyond(Marks(b, qs, dh, j), qs[s].node)
  BY <1>2, <1>3, <1>5, <1>7 DEF Pushed, R, s
<1>8. ASSUME R.name = "expr"
      PROVE  Q.child = s /\ (qs[s].name = "paren" => qs[s].parent = ch[j])
  BY <1>2, <1>3, <1>5, <1>8 DEF Pushed, R, s
<1>9. ASSUME R.name = "paren"
      PROVE  \/ Q.child = s /\ qs[s].name = "val"
             \/ Q.child < s /\ qs[s].name = "expr" /\ Inside(b, qs, dh, j)
  BY <1>2, <1>3, <1>5, <1>6, <1>9 DEF Pushed, R, s
<1>10. QED
  BY <1>3, <1>5, <1>7, <1>8, <1>9 DEF Pushed, Q

\* The chain up to position p is as it was.
LEMMA LeftFrames ==
  ASSUME NEW a, NEW b, NEW rs, NEW qs, NEW ch, NEW dh, NEW p, Sorted(rs, ch),
         Frames(a, rs, ch), Leaves(a, b, rs, qs, ch, dh, p)
  PROVE  /\ \A i, j \in 1..p : i < j => dh[i] < dh[j]
         /\ \A j \in 1..p : Waits(b, qs, dh, j)
         /\ \A j \in 1..(p - 1) : Pushed(b, qs, dh, j)
<1>1. p \in Nat /\ p < Len(ch) /\ Len(ch) \in Nat
  BY DEF Leaves, Sorted
<1>2. \A i, j \in 1..p : i < j => dh[i] < dh[j]
  BY <1>1 DEF Frames, Leaves
<1>3. \A j \in 1..p : Waits(b, qs, dh, j)
  BY LeftWaits
<1>4. ASSUME NEW j \in 1..(p - 1) PROVE Pushed(b, qs, dh, j)
  <2> DEFINE s == ch[j + 1]
  <2>1. j \in 1..p /\ j + 1 \in 1..p /\ j \in 1..(Len(ch) - 1) /\ j \in 1..Len(ch)
        /\ p \in 1..Len(ch) /\ j < p
    BY <1>1
  <2>2. /\ dh[j + 1] = s /\ Alike(qs[s], rs[s])
        /\ qs[s].node = rs[s].node \/ Refilled(a, rs, qs, ch, p, s)
        /\ dh[j] = ch[j]
        /\ qs[ch[j]].node = rs[ch[j]].node \/ Refilled(a, rs, qs, ch, p, ch[j])
    BY <2>1, LeftBelow
  <2>3. Pushed(a, rs, ch, j)
    BY <2>1 DEF Frames
  <2>4. ch[j] # ch[p]
    <3>1. ch[j] < ch[p] /\ ch[j] \in Nat /\ ch[p] \in Nat
      BY <2>1 DEF Frames, Sorted
    <3>2. QED
      BY <3>1
  <2>5. ASSUME rs[ch[j]].name = "val"
        PROVE  qs[ch[j]].node.k = "node" \/ Beyond(Marks(a, rs, ch, j), qs[s].node)
    <3>1. rs[s].name = "expr"
          /\ (rs[ch[j]].node.k = "node" \/ Beyond(Marks(a, rs, ch, j), rs[s].node))
      BY <2>3, <2>5 DEF Pushed
    <3>2. qs[s].node = rs[s].node
      BY <2>2, <3>1 DEF Refilled
    <3>3. QED
      BY <2>2, <2>4, <3>1, <3>2 DEF Refilled
  <2>6. qs[s].name = rs[s].name /\ qs[s].parent = rs[s].parent
    BY <2>2 DEF Alike
  <2>7. QED
    BY <2>1, <2>2, <2>5, <2>6, LeftPushed
<1>5. QED
  BY <1>2, <1>3, <1>4

(***************************************************************************)
(* The rule on top.                                                        *)
(***************************************************************************)
Chained(t) == t \in ParenOpen /\ Opens(t) \in PrevalActive

TopVal(a, rs, ch, j, t) ==
  LET V == rs[ch[j]]
  IN  /\ ValHolds(a, rs, ch, j)
      /\ V.state = "close" =>
           /\ V.node.k # "node" /\ V.child # 0 => Beyond(Marks(a, rs, ch, j), rs[V.child].node)
           /\ ~Beyond(Marks(a, rs, ch, j), V.node) => ~Chained(t)
           /\ \/ V.node.k = "node" \/ V.value # Undefined
              \/ V.child # 0 /\ rs[V.child].node # Undefined
              \/ t = ZZ

\* An expr yet to meet its operator.
TopExprOpen(a, rs, ch, j, t) ==
  LET E == rs[ch[j]]
  IN  \/ /\ Above(rs, ch, j, "val")
         /\ t \in ParenOpen \/ (t \in DOMAIN Prefix /\ E.n.prefix # 0)
      \/ /\ Apart(a, rs, ch, j) /\ t \in DOMAIN Infix \cup DOMAIN Suffix /\ E.n.prefix = 0
         /\ E.prev # 0 /\ E.prev < ch[j] /\ Beyond(Marks(a, rs, ch, j), Linked(rs, E.prev))
         /\ rs[E.prev].name = "val" \/ rs[E.prev].attach.k = "node"

\* An expr that is looking for its operator's place.
TopExprCall(a, rs, ch, j, call) ==
  LET E == rs[ch[j]]
  IN  /\ E.n.expr # 0 /\ call.root.k = "node"
      /\ \/ /\ Above(rs, ch, j, "val") /\ E.n.prefix # 0 /\ call.kind = "prefix"
            /\ call.expr = call.root /\ call.root = rs[ch[j - 1]].node
         \/ /\ Apart(a, rs, ch, j) /\ E.n.prefix = 0 /\ call.kind # "prefix"
            /\ Beyond(Marks(a, rs, ch, j), call.root) /\ Beyond(Marks(a, rs, ch, j), call.expr)

\* An expr that has all its operands, after a suffix, after an operand, or after
\* a paren.
TopExprClose(a, rs, ch, j, t) ==
  LET E == rs[ch[j]]
  IN  \/ /\ E.child = 0 /\ Apart(a, rs, ch, j) /\ E.n.prefix = 0
         /\ E.node = E.attach /\ E.node.k = "node" /\ Beyond(Marks(a, rs, ch, j), E.node)
      \/ /\ Awaits(rs, ch[j]) /\ ExprHolds(a, rs, ch, j)
         /\ \/ rs[E.child].node = E.node
            \/ Beyond(Marks(a, rs, ch, j) \cup {Mark(a, E.node)}, rs[E.child].node)
         /\ Above(rs, ch, j, "val") => ~Chained(t)
      \/ /\ E.child # 0 /\ rs[E.child].name = "paren" /\ Above(rs, ch, j, "val")
         /\ E.node = rs[E.child].node /\ E.node = rs[ch[j - 1]].node
         /\ Beyond(Marks(a, rs, ch, j), E.node) /\ E.node # Undefined

TopParen(a, rs, ch, j, t) ==
  LET P == rs[ch[j]]
  IN  /\ Above(rs, ch, j, "expr")
      /\ P.state = "close" =>
           /\ P.node = Undefined
           /\ P.child = 0 => t \in ParenClose /\ Closes(t) \in P.depth
           /\ P.child # 0 => /\ rs[P.child].name = "val"
                             /\ Beyond(Marks(a, rs, ch, j), rs[P.child].node)
                             /\ rs[P.child].node # Undefined \/ t = ZZ

TopHolds(a, rs, ch, t, call) ==
  LET j == Len(ch)
      R == rs[ch[j]]
  IN  /\ R.state = "open" => ~R.preval /\ R.child = 0
      /\ R.name = "val" => TopVal(a, rs, ch, j, t)
      /\ R.name = "expr" /\ R.state = "open" /\ call = NoCall => TopExprOpen(a, rs, ch, j, t)
      /\ R.name = "expr" /\ R.state = "open" /\ call # NoCall => TopExprCall(a, rs, ch, j, call)
      /\ R.name = "expr" /\ R.state = "close" => TopExprClose(a, rs, ch, j, t)
      /\ R.name = "paren" => TopParen(a, rs, ch, j, t)

Chain == Append(stack, cur)

ChainInv ==
  /\ Acyclic(arena)
  /\ status = "run" => /\ cur # 0 /\ Frames(arena, rules, Chain) /\ TopHolds(arena, rules, Chain, t0, pratt)
                       /\ pratt # NoCall => rules[cur].state = "open"

LEMMA ArenaClosed ==
  ASSUME TypeInv
  PROVE  Sound(arena) /\ Closed(arena)
<1>1. Sound(arena) /\ \A i \in DOMAIN arena.nodes : arena.nodes[i].terms \in Seq(Value)
  BY DEF TypeInv, PrattInv, Typed, TermsTyped
<1>2. ASSUME NEW i \in DOMAIN arena.nodes, NEW j \in DOMAIN arena.nodes[i].terms,
             arena.nodes[i].terms[j].k = "node"
      PROVE  arena.nodes[i].terms[j].id \in DOMAIN arena.nodes
  <2>1. arena.nodes[i].terms[j] \in Value
    BY <1>1, ElementOfSeq, LenProperties
  <2>2. QED
    BY <1>2, <2>1 DEF Value, Values
<1>3. QED
  BY <1>1, <1>2 DEF Closed

(***************************************************************************)
(* The chain of a running parse.                                           *)
(***************************************************************************)
Height == Len(stack) + 1
Lines  == Marks(arena, rules, Chain, Height)
Under(name) == Above(rules, Chain, Height, name)
Below == Chain[Height - 1]

Running == TypeInv /\ NoTernaries /\ ChainInv /\ status = "run"

\* The fields a rule has, in the terms the provers reckon with.
Formed(R) ==
  /\ {"name", "state", "node", "n", "d", "parent", "prev", "child", "value", "attach",
      "preval", "depth"} \subseteq DOMAIN R
  /\ {"expr", "prefix", "suffix", "list", "paren", "depth"} \subseteq DOMAIN R.n

LEMMA ChainIs ==
  ASSUME Running
  PROVE  /\ Height \in Nat \ {0} /\ Len(Chain) = Height /\ Chain[Height] = cur
         /\ \A i \in 1..(Height - 1) : Chain[i] = stack[i] /\ Chain[i] < cur /\ Chain[i] # cur
         /\ Sorted(rules, Chain) /\ Frames(arena, rules, Chain) /\ TopHolds(arena, rules, Chain, t0, pratt)
         /\ IsSeq(rules) /\ IsSeq(stack) /\ IsSeq(Chain)
         /\ Len(rules) \in Nat /\ DOMAIN rules = 1..Len(rules) /\ cur \in DOMAIN rules
         /\ \A r \in DOMAIN rules : rules[r] \in Rules(Value, Len(rules)) /\ Formed(rules[r])
<1>1. /\ rules \in Seq(Rules(Value, Len(rules))) /\ stack \in Seq(1..Len(rules))
      /\ cur \in 0..Len(rules) /\ cur # 0
      /\ Frames(arena, rules, Chain) /\ TopHolds(arena, rules, Chain, t0, pratt)
  BY DEF Running, TypeInv, Typed, StackTyped, ChainInv
<1>2. IsSeq(rules) /\ IsSeq(stack)
  BY <1>1 DEF IsSeq
<1>3. Len(rules) \in Nat /\ DOMAIN rules = 1..Len(rules) /\ cur \in DOMAIN rules
  BY <1>1, <1>2, SeqShape
<1>4. \A r \in DOMAIN rules : rules[r] \in Rules(Value, Len(rules))
  BY <1>1, <1>3, ElementOfSeq
<1>5. \A r \in DOMAIN rules : Formed(rules[r])
  BY <1>4 DEF Rules, RuleSet, Counters, Formed
<1>6. /\ Len(stack) \in Nat /\ DOMAIN stack = 1..Len(stack) /\ Height \in Nat \ {0}
      /\ Len(Chain) = Height /\ Chain[Height] = cur /\ IsSeq(Chain)
      /\ \A i \in 1..(Height - 1) : Chain[i] = stack[i] /\ i \in 1..Len(stack)
  <2>1. Len(stack) \in Nat /\ DOMAIN stack = 1..Len(stack)
    BY <1>2, SeqShape
  <2>2. /\ Len(Chain) = Len(stack) + 1 /\ \A i \in 1..Len(stack) : Chain[i] = stack[i]
        /\ Chain[Len(stack) + 1] = cur /\ IsSeq(Chain)
    BY <1>2, SeqAppend DEF Chain
  <2>3. QED
    BY <2>1, <2>2 DEF Height
<1>7. \A i \in 1..(Height - 1) : Chain[i] \in DOMAIN rules
  BY <1>1, <1>3, <1>6, ElementOfSeq
<1>8. Sorted(rules, Chain)
  <2>1. \A j \in 1..Height : j = Height \/ j \in 1..(Height - 1)
    BY <1>6
  <2>2. \A r \in DOMAIN rules : rules[r].child \in 0..Len(rules) /\ rules[r].parent \in 0..Len(rules)
    BY <1>4, Fields
  <2>3. QED
    BY <1>3, <1>6, <1>7, <2>1, <2>2 DEF Sorted
<1>9. ASSUME NEW i \in 1..(Height - 1) PROVE Chain[i] < cur /\ Chain[i] # cur
  <2>1. i \in 1..Len(Chain) /\ Height \in 1..Len(Chain) /\ i < Height
    BY <1>6
  <2>2. Chain[i] < cur /\ Chain[i] \in Nat /\ cur \in Nat
    BY <1>1, <1>3, <1>6, <1>7, <2>1 DEF Frames
  <2>3. QED
    BY <2>2
<1>10. QED
  BY <1>1, <1>2, <1>3, <1>4, <1>5, <1>6, <1>8, <1>9

\* The lines, and the expressions that draw them.
LEMMA LinesAre ==
  ASSUME Running
  PROVE  /\ \A i \in 1..(Height - 1) : Awaits(rules, Chain[i]) =>
              /\ ExprHolds(arena, rules, Chain, i)
              /\ Firm(arena, rules[Chain[i]].node)
              /\ Mark(arena, rules[Chain[i]].node) \in Lines
         /\ \A N \in Lines : N <= Len(arena.nodes) /\ N \in Nat
<1>1. Sound(arena) /\ Closed(arena)
  BY ArenaClosed DEF Running
<1>2. ASSUME NEW i \in 1..(Height - 1), Awaits(rules, Chain[i])
      PROVE  ExprHolds(arena, rules, Chain, i)
  <2>1. Waits(arena, rules, Chain, i)
    BY ChainIs DEF Frames
  <2>2. QED
    BY <1>2, <2>1 DEF Waits, Awaits
<1>3. \A i \in 1..(Height - 1) : Awaits(rules, Chain[i]) =>
        /\ Firm(arena, rules[Chain[i]].node)
        /\ Mark(arena, rules[Chain[i]].node) \in Lines
  BY <1>2 DEF ExprHolds, Lines, Marks
<1>4. \A N \in Lines : \E i \in 1..(Height - 1) :
        Awaits(rules, Chain[i]) /\ N = Mark(arena, rules[Chain[i]].node)
  BY DEF Lines, Marks
<1>5. ASSUME NEW N \in Lines PROVE N <= Len(arena.nodes) /\ N \in Nat
  <2>1. PICK i \in 1..(Height - 1) :
          Awaits(rules, Chain[i]) /\ N = Mark(arena, rules[Chain[i]].node)
    BY <1>4
  <2>2. Firm(arena, rules[Chain[i]].node)
    BY <1>3, <2>1
  <2>3. QED
    BY <1>1, <2>1, <2>2, MarkIs DEF Firm
<1>6. QED
  BY <1>2, <1>3, <1>5

\* A step beyond the lines leaves them where they are.
LEMMA LinesStand ==
  ASSUME Running, NEW b, NEW v, Beyond(Lines, v),
         \A e : Firm(arena, e) /\ Beyond({Mark(arena, e)}, v) => Steady(arena, b, e)
  PROVE  \A i \in 1..(Height - 1) : Awaits(rules, Chain[i]) =>
           Steady(arena, b, rules[Chain[i]].node)
BY LinesAre DEF Beyond

(***************************************************************************)
(* How a pass leaves the chain.                                            *)
(***************************************************************************)
\* The rules other than the current one.
Rest(qs) ==
  \A r \in DOMAIN rules \ {cur} :
    /\ Alike(qs[r], rules[r])
    /\ \/ qs[r].node = rules[r].node
       \/ r < cur /\ Refilled(arena, rules, qs, Chain, Height - 1, r)

\* The expressions that await an operand.
Stands(b) == \A i \in 1..(Height - 1) : Awaits(rules, Chain[i]) =>
               Steady(arena, b, rules[Chain[i]].node)

LEMMA PassLeaves ==
  ASSUME Running, NEW b, NEW qs, NEW dh, Stands(b), Rest(qs), DOMAIN rules \subseteq DOMAIN qs,
         qs[cur].name = rules[cur].name,
         \A i \in 1..(Height - 1) : dh[i] = Chain[i]
  PROVE  Leaves(arena, b, rules, qs, Chain, dh, Height - 1)
<1>1. /\ Height \in Nat \ {0} /\ Len(Chain) = Height /\ Chain[Height] = cur
      /\ Len(rules) \in Nat /\ DOMAIN rules = 1..Len(rules) /\ cur \in DOMAIN rules
  BY ChainIs
<1>2. Height - 1 \in Nat /\ Height - 1 < Len(Chain) /\ Chain[(Height - 1) + 1] = cur
  BY <1>1
<1>3. \A r \in DOMAIN rules : r \in DOMAIN qs /\ qs[r].name = rules[r].name
  BY DEF Rest, Alike
<1>4. \A r \in DOMAIN rules : r < cur => r \in DOMAIN rules \ {cur}
  BY <1>1
<1>5. QED
  BY <1>2, <1>3, <1>4 DEF Leaves, Rest, Stands

LEMMA SameLines ==
  ASSUME Running, NEW b, NEW qs, NEW dh,
         Leaves(arena, b, rules, qs, Chain, dh, Height - 1)
  PROVE  /\ Marks(b, qs, dh, Height) = Lines
         /\ \A name : Above(qs, dh, Height, name) <=> Under(name)
<1>1. /\ Height \in Nat \ {0} /\ Sorted(rules, Chain) /\ Frames(arena, rules, Chain)
  BY ChainIs
<1>2. Height \in 1..((Height - 1) + 1)
  BY <1>1
<1>3. QED
  BY <1>1, <1>2, LeftMarks DEF Lines, Under

\* The lines at the rule on top and at the one below it.
LEMMA LinesBelow ==
  ASSUME Running, Height > 1
  PROVE  /\ Lines = Marks(arena, rules, Chain, Height - 1)
                      \cup (IF Awaits(rules, Below) THEN {Mark(arena, rules[Below].node)} ELSE {})
         /\ Under("val") \/ Under("paren") => Lines = Marks(arena, rules, Chain, Height - 1)
         /\ Below \in DOMAIN rules /\ Below < cur /\ Below # cur /\ Height - 1 \in 1..(Height - 1)
         /\ \A name : Under(name) <=> rules[Below].name = name
<1>1. Height - 1 \in Nat \ {0} /\ (Height - 1) + 1 = Height /\ Height - 1 \in 1..(Height - 1)
      /\ Height - 1 \in 1..Len(Chain)
  BY ChainIs
<1>2. Lines = Marks(arena, rules, Chain, Height - 1)
                \cup (IF Awaits(rules, Below) THEN {Mark(arena, rules[Below].node)} ELSE {})
  BY <1>1, MarksNext DEF Lines, Below
<1>3. \A name : Under(name) <=> rules[Below].name = name
  BY DEF Under, Above, Below
<1>4. Under("val") \/ Under("paren") => ~Awaits(rules, Below)
  BY <1>3 DEF Awaits
<1>5. Below \in DOMAIN rules /\ Below < cur /\ Below # cur
  BY <1>1, ChainIs DEF Below, Sorted
<1>6. QED
  BY <1>1, <1>2, <1>3, <1>4, <1>5

\* The rule on top stays where it is, or gives way to a new one.
LEMMA TopFrames ==
  ASSUME Running, NEW b, NEW qs, NEW dh,
         Leaves(arena, b, rules, qs, Chain, dh, Height - 1),
         Len(dh) = Height, dh[Height] \in Nat, dh[Height] >= cur,
         Height > 1 => Pushed(b, qs, dh, Height - 1)
  PROVE  Frames(b, qs, dh)
<1>1. /\ Height \in Nat \ {0} /\ Sorted(rules, Chain) /\ Frames(arena, rules, Chain)
      /\ \A i \in 1..(Height - 1) : Chain[i] < cur /\ Chain[i] \in Nat
      /\ cur \in Nat
  BY ChainIs DEF Sorted
<1>2. /\ \A i, j \in 1..(Height - 1) : i < j => dh[i] < dh[j]
      /\ \A j \in 1..(Height - 1) : Waits(b, qs, dh, j)
      /\ \A j \in 1..((Height - 1) - 1) : Pushed(b, qs, dh, j)
      /\ \A i \in 1..(Height - 1) : dh[i] = Chain[i]
  BY <1>1, LeftFrames DEF Leaves
<1>3. \A i \in 1..(Height - 1) : dh[i] < dh[Height]
  BY <1>1, <1>2
<1>4. \A j \in 1..Height : j = Height \/ j \in 1..(Height - 1)
  BY <1>1
<1>5. \A i, j \in 1..Height : i < j => i \in 1..(Height - 1)
  BY <1>1
<1>6. \A i, j \in 1..Height : i < j => dh[i] < dh[j]
  BY <1>2, <1>3, <1>4, <1>5
<1>7. \A j \in 1..(Height - 1) : j = Height - 1 \/ j \in 1..((Height - 1) - 1)
  BY <1>1
<1>8. \A j \in 1..(Height - 1) : j = Height - 1 => Height > 1
  BY <1>1
<1>9. \A j \in 1..(Height - 1) : Pushed(b, qs, dh, j)
  BY <1>2, <1>7, <1>8
<1>10. QED
  BY <1>2, <1>6, <1>9 DEF Frames

\* The rule on top waits for a new one.
LEMMA PushFrames ==
  ASSUME Running, NEW b, NEW qs, NEW dh,
         Leaves(arena, b, rules, qs, Chain, dh, Height - 1),
         Len(dh) = Height + 1, dh[Height] = cur, dh[Height + 1] \in Nat, dh[Height + 1] > cur,
         Height > 1 => Pushed(b, qs, dh, Height - 1),
         Waits(b, qs, dh, Height), Pushed(b, qs, dh, Height)
  PROVE  Frames(b, qs, dh)
<1>1. /\ Height \in Nat \ {0} /\ Sorted(rules, Chain) /\ Frames(arena, rules, Chain)
      /\ \A i \in 1..(Height - 1) : Chain[i] < cur /\ Chain[i] \in Nat
      /\ cur \in Nat
  BY ChainIs DEF Sorted
<1>2. /\ \A i, j \in 1..(Height - 1) : i < j => dh[i] < dh[j]
      /\ \A j \in 1..(Height - 1) : Waits(b, qs, dh, j)
      /\ \A j \in 1..((Height - 1) - 1) : Pushed(b, qs, dh, j)
      /\ \A i \in 1..(Height - 1) : dh[i] = Chain[i]
  BY <1>1, LeftFrames DEF Leaves
<1>3. /\ \A i \in 1..(Height - 1) : dh[i] < dh[Height] /\ dh[i] < dh[Height + 1]
      /\ dh[Height] < dh[Height + 1]
  BY <1>1, <1>2
<1>4. \A j \in 1..(Height + 1) : j = Height + 1 \/ j = Height \/ j \in 1..(Height - 1)
  BY <1>1
<1>5. \A i, j \in 1..(Height + 1) : i < j =>
         i \in 1..(Height - 1) \/ (i = Height /\ j = Height + 1)
  BY <1>1
<1>6. \A i, j \in 1..(Height + 1) : i < j => dh[i] < dh[j]
  BY <1>2, <1>3, <1>4, <1>5
<1>7. \A j \in 1..Height :
         j = Height \/ j \in 1..(Height - 1)
  BY <1>1
<1>8. \A j \in 1..(Height - 1) : (j = Height - 1 /\ Height > 1) \/ j \in 1..((Height - 1) - 1)
  BY <1>1
<1>9. \A j \in 1..Height : Waits(b, qs, dh, j) /\ Pushed(b, qs, dh, j)
  BY <1>2, <1>7, <1>8
<1>10. Len(dh) - 1 = Height
  BY <1>1
<1>11. QED
  BY <1>6, <1>9, <1>10 DEF Frames

\* The rule on top is gone.
LEMMA PopFrames ==
  ASSUME Running, NEW b, NEW qs, NEW dh,
         Leaves(arena, b, rules, qs, Chain, dh, Height - 1),
         Len(dh) = Height - 1, Height > 1
  PROVE  Frames(b, qs, dh) /\ Waits(b, qs, dh, Height - 1)
<1>1. /\ Height \in Nat \ {0} /\ Sorted(rules, Chain) /\ Frames(arena, rules, Chain)
      /\ Height - 1 \in 1..(Height - 1)
  BY ChainIs
<1>2. /\ \A i, j \in 1..(Height - 1) : i < j => dh[i] < dh[j]
      /\ \A j \in 1..(Height - 1) : Waits(b, qs, dh, j)
      /\ \A j \in 1..((Height - 1) - 1) : Pushed(b, qs, dh, j)
  BY <1>1, LeftFrames
<1>3. \A j \in 1..(Len(dh) - 1) : j \in 1..(Height - 1)
  BY <1>1
<1>4. QED
  BY <1>1, <1>2, <1>3 DEF Frames

\* The rule below the top one, where that is still the same.
LEMMA TopPushed ==
  ASSUME Running, NEW b, NEW qs, NEW dh,
         Leaves(arena, b, rules, qs, Chain, dh, Height - 1), dh[Height] = cur,
         qs[cur].name = rules[cur].name,
         Under("val") \/ Under("expr") => qs[cur].parent = rules[cur].parent,
         Under("val") => qs[Below].node.k = "node" \/ Beyond(Lines, qs[cur].node),
         Height > 1
  PROVE  Pushed(b, qs, dh, Height - 1)
<1>1. /\ Height - 1 \in 1..(Height - 1) /\ (Height - 1) + 1 = Height
      /\ Sorted(rules, Chain) /\ Frames(arena, rules, Chain) /\ Chain[Height] = cur
  BY ChainIs
<1>2. /\ Under("val") => Lines = Marks(arena, rules, Chain, Height - 1)
      /\ \A name : Under(name) <=> rules[Chain[Height - 1]].name = name
  BY LinesBelow DEF Below
<1>3. /\ rules[Chain[Height - 1]].name \in {"val", "expr"} => qs[cur].parent = rules[cur].parent
      /\ rules[Chain[Height - 1]].name = "val" =>
           \/ qs[Chain[Height - 1]].node.k = "node"
           \/ Beyond(Marks(arena, rules, Chain, Height - 1), qs[cur].node)
  BY <1>2 DEF Below
<1>4. QED
  BY <1>1, <1>3, LeftPushed

LEMMA ChainNext ==
  ASSUME Acyclic(arena'),
         status' = "run" => /\ cur' # 0 /\ Frames(arena', rules', Chain')
                            /\ TopHolds(arena', rules', Chain', t0', pratt')
                            /\ pratt' # NoCall => rules'[cur'].state = "open"
  PROVE  ChainInv'
BY DEF ChainInv

\* A rule that waits for what it pushed.
Closing(R, child) == [R EXCEPT !.state = "close", !.child = child]

LEMMA PushShape ==
  ASSUME Running, NEW R, NEW name, NEW others, IsSeq(others), DOMAIN others = DOMAIN rules,
         Push(R, name, others)
  PROVE  LET new == Len(rules) + 1
         IN  /\ new \in Nat /\ new > cur /\ DOMAIN rules' = 1..new
             /\ rules'[cur] = Closing(R, new)
             /\ \A r \in DOMAIN rules \ {cur} : rules'[r] = others[r]
             /\ rules'[new] = Rule(name, R.node, R.n, cur, 0, R.d + 1)
             /\ cur' = new /\ status' = status
             /\ Len(Chain') = Height + 1 /\ \A i \in 1..Height : Chain'[i] = Chain[i]
             /\ Chain'[Height] = cur /\ Chain'[Height + 1] = new
<1> DEFINE new  == Len(rules) + 1
           S    == Closing(R, new)
           base == [others EXCEPT ![cur] = S]
           top  == Rule(name, R.node, R.n, cur, 0, R.d + 1)
<1>1. /\ Len(rules) \in Nat /\ DOMAIN rules = 1..Len(rules) /\ cur \in DOMAIN rules
      /\ IsSeq(Chain) /\ Len(Chain) = Height /\ Chain[Height] = cur /\ Height \in Nat \ {0}
  BY ChainIs
<1>2. Len(others) = Len(rules)
  BY <1>1, SeqShape
<1>3. /\ rules' = Append(base, top) /\ Chain' = Append(Chain, new) /\ cur' = new
      /\ status' = status
  BY <1>2 DEF Push, Chain, Closing
<1> HIDE DEF top, S
<1>4. /\ IsSeq(base) /\ DOMAIN base = DOMAIN rules
      /\ \A r \in DOMAIN rules : base[r] = IF r = cur THEN S ELSE others[r]
  BY <1>1, SeqExcept
<1> HIDE DEF base
<1>5. Len(base) = Len(rules)
  BY <1>1, <1>4, SeqShape
<1>6. /\ DOMAIN rules' = 1..new /\ \A r \in DOMAIN rules : rules'[r] = base[r]
      /\ rules'[new] = top
  BY <1>1, <1>3, <1>4, <1>5, SeqAppend
<1>7. /\ Len(Chain') = Height + 1 /\ \A i \in 1..Height : Chain'[i] = Chain[i]
      /\ Chain'[Height + 1] = new
  BY <1>1, <1>3, SeqAppend
<1>8. new \in Nat /\ new > cur /\ Chain'[Height] = cur
  BY <1>1, <1>7
<1>9. QED
  BY <1>1, <1>3, <1>4, <1>6, <1>7, <1>8 DEF top, S

LEMMA ReplaceShape ==
  ASSUME Running, NEW R, NEW S,
         rules' = Append([rules EXCEPT ![cur] = R], S), cur' = Len(rules) + 1,
         stack' = stack
  PROVE  LET new == Len(rules) + 1
         IN  /\ new \in Nat /\ new > cur /\ DOMAIN rules' = 1..new
             /\ rules'[cur] = R
             /\ \A r \in DOMAIN rules \ {cur} : rules'[r] = rules[r]
             /\ rules'[new] = S
             /\ Len(Chain') = Height /\ \A i \in 1..(Height - 1) : Chain'[i] = Chain[i]
             /\ Chain'[Height] = new
<1> DEFINE new  == Len(rules) + 1
           base == [rules EXCEPT ![cur] = R]
<1>1. /\ Len(rules) \in Nat /\ DOMAIN rules = 1..Len(rules) /\ cur \in DOMAIN rules
      /\ IsSeq(rules) /\ IsSeq(stack) /\ Height \in Nat \ {0}
      /\ \A i \in 1..(Height - 1) : Chain[i] = stack[i]
  BY ChainIs
<1>2. /\ rules' = Append(base, S) /\ Chain' = Append(stack, new)
  BY DEF Chain
<1>3. /\ IsSeq(base) /\ DOMAIN base = DOMAIN rules
      /\ \A r \in DOMAIN rules : base[r] = IF r = cur THEN R ELSE rules[r]
  BY <1>1, SeqExcept
<1> HIDE DEF base
<1>4. Len(base) = Len(rules)
  BY <1>1, <1>3, SeqShape
<1>5. /\ DOMAIN rules' = 1..new /\ \A r \in DOMAIN rules : rules'[r] = base[r]
      /\ rules'[new] = S
  BY <1>1, <1>2, <1>3, <1>4, SeqAppend
<1>6. /\ Len(Chain') = Len(stack) + 1 /\ \A i \in 1..Len(stack) : Chain'[i] = stack[i]
      /\ Chain'[Len(stack) + 1] = new
  BY <1>1, <1>2, SeqAppend
<1>7. Len(stack) = Height - 1
  BY <1>1, SeqShape DEF Height
<1>8. new \in Nat /\ new > cur
  BY <1>1
<1>9. QED
  BY <1>1, <1>3, <1>5, <1>6, <1>7, <1>8 DEF Height

LEMMA PushRest ==
  ASSUME Running, NEW R, NEW name, NEW others, IsSeq(others), DOMAIN others = DOMAIN rules,
         Push(R, name, others)
  PROVE  \A r \in DOMAIN rules \ {cur} : rules'[r] = others[r]
BY PushShape

\* In place.
LEMMA StayShape ==
  ASSUME Running, NEW R, NEW others, IsSeq(others), DOMAIN others = DOMAIN rules,
         rules' = [others EXCEPT ![cur] = R], cur' = cur, stack' = stack
  PROVE  /\ DOMAIN rules' = DOMAIN rules /\ rules'[cur] = R
         /\ \A r \in DOMAIN rules \ {cur} : rules'[r] = others[r]
         /\ Chain' = Chain
<1>1. cur \in DOMAIN rules
  BY ChainIs
<1>2. Chain' = Chain
  BY DEF Chain
<1>3. QED
  BY <1>1, <1>2, SeqExcept

LEMMA PopShape ==
  ASSUME Running, NEW R, NEW others, NEW next, IsSeq(others), DOMAIN others = DOMAIN rules,
         Pop(R, others, next), status' = "run"
  PROVE  /\ DOMAIN rules' = DOMAIN rules /\ rules'[cur] = R
         /\ \A r \in DOMAIN rules \ {cur} : rules'[r] = others[r]
         /\ Height > 1 /\ cur' = Below /\ cur' # 0 /\ Len(Chain') = Height - 1
         /\ \A i \in 1..(Height - 1) : Chain'[i] = Chain[i]
<1>1. /\ cur \in DOMAIN rules /\ IsSeq(stack) /\ Height \in Nat \ {0}
      /\ \A i \in 1..(Height - 1) : Chain[i] = stack[i]
  BY ChainIs
<1>2. Len(stack) \in Nat /\ DOMAIN stack = 1..Len(stack) /\ Height = Len(stack) + 1
  BY <1>1, SeqShape DEF Height
<1>3. /\ DOMAIN rules' = DOMAIN rules /\ rules'[cur] = R
      /\ \A r \in DOMAIN rules \ {cur} : rules'[r] = others[r]
  BY <1>1, SeqExcept DEF Pop
<1>4. stack # << >>
  BY DEF Pop
<1>5. cur' = stack[Len(stack)] /\ stack' = SubSeq(stack, 1, Len(stack) - 1)
  BY <1>4 DEF Pop
<1>6. Len(stack) > 0
  <2>1. PICK S : stack \in Seq(S)
    BY <1>1 DEF IsSeq
  <2>2. QED
    BY <1>2, <1>4, <2>1, EmptySeq
<1>7. /\ IsSeq(stack') /\ Len(stack') = Len(stack) - 1
      /\ \A i \in 1..(Len(stack) - 1) : stack'[i] = stack[i]
  <2>1. PICK S : stack \in Seq(S)
    BY <1>1 DEF IsSeq
  <2>2. Len(stack) - 1 \in 0..Len(stack) /\ 1 \in 1..(Len(stack) + 1)
    BY <1>2, <1>6
  <2>3. /\ stack' \in Seq(S) /\ Len(stack') = Len(stack) - 1
        /\ \A i \in 1..(Len(stack) - 1) : stack'[i] = stack[i]
    <3>1. SubSeq(stack, 1, Len(stack) - 1) \in Seq(S)
      BY <2>1, <2>2, SubSeqProperties
    <3>2. /\ Len(SubSeq(stack, 1, Len(stack) - 1)) = Len(stack) - 1
          /\ \A i \in 1..(Len(stack) - 1) : SubSeq(stack, 1, Len(stack) - 1)[i] = stack[i]
      BY <1>2, <1>6, <2>1
    <3>3. QED
      BY <1>5, <3>1, <3>2
  <2>4. QED
    BY <2>3 DEF IsSeq
<1>8. /\ Len(Chain') = Len(stack') + 1 /\ \A i \in 1..Len(stack') : Chain'[i] = stack'[i]
      /\ Chain'[Len(stack') + 1] = cur'
  BY <1>7, SeqAppend DEF Chain
<1>9. Height > 1 /\ Height - 1 \in 1..(Height - 1) /\ Below = stack[Len(stack)]
  BY <1>1, <1>2, <1>6 DEF Below
<1>10. \A i \in 1..(Height - 1) : Chain'[i] = Chain[i]
  <2>1. \A i \in 1..(Height - 1) : i \in 1..(Len(stack) - 1) \/ i = Len(stack)
    <3>1. \A n \in Nat : \A i \in 1..n : i \in 1..(n - 1) \/ i = n
      OBVIOUS
    <3>2. Height - 1 = Len(stack)
      BY <1>2
    <3>3. QED
      BY <1>2, <3>1, <3>2
  <2>2. QED
    BY <1>1, <1>2, <1>5, <1>7, <1>8, <2>1
<1>11. cur' # 0
  BY <1>5, <1>9, LinesBelow, ChainIs
<1>12. QED
  BY <1>2, <1>3, <1>5, <1>7, <1>8, <1>9, <1>10, <1>11

LEMMA StandsStill ==
  ASSUME Running
  PROVE  Stands(arena)
BY LinesAre DEF Stands, Steady

LEMMA RestSame ==
  ASSUME NEW qs, \A r \in DOMAIN rules \ {cur} : qs[r] = rules[r]
  PROVE  Rest(qs)
BY DEF Rest, Alike

\* The rule below, in a pass that keeps the rule on top.
TopKept(R, qs) ==
  /\ R.name = rules[cur].name
  /\ Under("val") \/ Under("expr") => R.parent = rules[cur].parent
  /\ Under("val") => qs[Below].node.k = "node" \/ Beyond(Lines, R.node)

\* A pass that pushes a rule: what is to be shown of it.
LEMMA PushOn ==
  ASSUME Running, NEW R, NEW name, NEW others, IsSeq(others), DOMAIN others = DOMAIN rules,
         Push(R, name, others), Formed(R), TopKept(R, rules'), Rest(rules'), Stands(arena')
  PROVE  LET new == Len(rules) + 1
             S   == rules'[cur]
             N   == rules'[new]
         IN  /\ /\ S.name = R.name /\ S.state = "close" /\ S.child = new /\ S.node = R.node
                /\ S.n = R.n /\ S.parent = R.parent /\ S.attach = R.attach /\ S.preval = R.preval
             /\ /\ N.name = name /\ N.state = "open" /\ N.child = 0 /\ N.node = R.node
                /\ N.n = R.n /\ N.parent = cur /\ ~N.preval
             /\ Marks(arena', rules', Chain', Height) = Lines
             /\ \A nm : Above(rules', Chain', Height, nm) <=> Under(nm)
             /\ Marks(arena', rules', Chain', Height + 1) =
                  Lines \cup (IF R.name = "expr" /\ name = "val" THEN {Mark(arena', R.node)} ELSE {})
             /\ \A nm : Above(rules', Chain', Height + 1, nm) <=> R.name = nm
             /\ Height > 1 => Chain'[Height - 1] = Below
             /\ Height \in Nat \ {0} /\ Height + 1 # 1 /\ (Height + 1) - 1 = Height
             /\ new # 0 /\ new > cur /\ new # cur /\ cur' = new /\ status' = "run"
             /\ Chain'[Height] = cur /\ Chain'[Height + 1] = new /\ Len(Chain') = Height + 1
             /\ Waits(arena', rules', Chain', Height) /\ Pushed(arena', rules', Chain', Height)
                  => Frames(arena', rules', Chain')
<1> DEFINE new == Len(rules) + 1
           S   == rules'[cur]
           N   == rules'[new]
<1>1. /\ Height \in Nat \ {0} /\ cur \in DOMAIN rules /\ DOMAIN rules = 1..Len(rules)
      /\ Len(rules) \in Nat /\ status = "run"
  BY ChainIs DEF Running
<1>2. /\ new \in Nat /\ new > cur /\ DOMAIN rules' = 1..new /\ S = Closing(R, new)
      /\ \A r \in DOMAIN rules \ {cur} : rules'[r] = others[r]
      /\ N = Rule(name, R.node, R.n, cur, 0, R.d + 1)
      /\ cur' = new /\ status' = status
      /\ Len(Chain') = Height + 1 /\ \A i \in 1..Height : Chain'[i] = Chain[i]
      /\ Chain'[Height] = cur /\ Chain'[Height + 1] = new
  BY PushShape
<1>3. new # 0 /\ new # cur /\ DOMAIN rules \subseteq DOMAIN rules'
  BY <1>1, <1>2
<1> HIDE DEF new, S, N
<1>4. /\ S.name = R.name /\ S.state = "close" /\ S.child = new /\ S.node = R.node
      /\ S.n = R.n /\ S.parent = R.parent /\ S.attach = R.attach /\ S.preval = R.preval
  BY <1>2 DEF Formed, Closing
<1>5. /\ N.name = name /\ N.state = "open" /\ N.child = 0 /\ N.node = R.node
      /\ N.n = R.n /\ N.parent = cur /\ ~N.preval
  BY <1>2 DEF Rule
<1>6. /\ Height + 1 # 1 /\ (Height + 1) - 1 = Height /\ Height + 1 > 1
      /\ \A i \in 1..(Height - 1) : i \in 1..Height
      /\ Height > 1 => Height - 1 \in 1..Height
  BY <1>1
<1>7. Leaves(arena, arena', rules, rules', Chain, Chain', Height - 1)
  <2>1. \A i \in 1..(Height - 1) : Chain'[i] = Chain[i]
    BY <1>2, <1>6
  <2>2. rules'[cur].name = rules[cur].name
    BY <1>4 DEF S, TopKept
  <2>3. QED
    BY <1>3, <2>1, <2>2, PassLeaves
<1>8. /\ Marks(arena', rules', Chain', Height) = Lines
      /\ \A nm : Above(rules', Chain', Height, nm) <=> Under(nm)
  BY <1>7, SameLines
<1>9. /\ Awaits(rules', Chain'[Height]) <=> R.name = "expr" /\ name = "val"
      /\ rules'[Chain'[Height]].node = R.node
  <2>1. Chain'[Height] = cur
    BY <1>2
  <2>2. /\ rules'[cur].name = R.name /\ rules'[cur].child = new /\ rules'[cur].node = R.node
        /\ rules'[new].name = name
    BY <1>4, <1>5 DEF S, N
  <2>3. QED
    BY <1>3, <2>1, <2>2 DEF Awaits
<1>10. Marks(arena', rules', Chain', Height + 1) =
         Lines \cup (IF R.name = "expr" /\ name = "val" THEN {Mark(arena', R.node)} ELSE {})
  <2>1. Marks(arena', rules', Chain', Height + 1) =
          Marks(arena', rules', Chain', Height)
            \cup (IF Awaits(rules', Chain'[Height])
                   THEN {Mark(arena', rules'[Chain'[Height]].node)} ELSE {})
    BY <1>1, MarksNext
  <2>2. QED
    BY <1>8, <1>9, <2>1
<1>11. \A nm : Above(rules', Chain', Height + 1, nm) <=> R.name = nm
  BY <1>2, <1>4, <1>6 DEF Above, S
<1>12. Height > 1 => Chain'[Height - 1] = Below
  BY <1>2, <1>6 DEF Below
<1>13. ASSUME Height > 1 PROVE Pushed(arena', rules', Chain', Height - 1)
  <2>1. /\ rules'[cur].name = rules[cur].name
        /\ Under("val") \/ Under("expr") => rules'[cur].parent = rules[cur].parent
        /\ Under("val") => rules'[Below].node.k = "node" \/ Beyond(Lines, rules'[cur].node)
    BY <1>4 DEF S, TopKept
  <2>2. QED
    BY <1>2, <1>7, <1>13, <2>1, TopPushed
<1>14. Waits(arena', rules', Chain', Height) /\ Pushed(arena', rules', Chain', Height)
         => Frames(arena', rules', Chain')
  BY <1>2, <1>7, <1>13, PushFrames
<1>15. QED
  BY <1>1, <1>2, <1>3, <1>4, <1>5, <1>6, <1>8, <1>10, <1>11, <1>12, <1>14 DEF S, N, new

(***************************************************************************)
(* The rules pushed.                                                       *)
(***************************************************************************)
\* A val is the first rule, or an expr or a paren pushed it.
LEMMA ValBelow ==
  ASSUME Running, rules[cur].name = "val"
  PROVE  ValHolds(arena, rules, Chain, Height) /\ ~Under("val")
         /\ TopVal(arena, rules, Chain, Height, t0)
<1>1. TopVal(arena, rules, Chain, Height, t0)
  BY ChainIs DEF TopHolds
<1>2. ValHolds(arena, rules, Chain, Height)
  BY <1>1 DEF TopVal
<1>3. ~Under("val")
  BY <1>2, ChainIs DEF ValHolds, Under, Above
<1>4. QED
  BY <1>1, <1>2, <1>3

\* A val as a pass leaves it, where the rule on top is.
LEMMA ValKept ==
  ASSUME Running, rules[cur].name = "val", NEW b, NEW qs, NEW dh, NEW R,
         dh[Height] = cur, Height > 1 => dh[Height - 1] = Below,
         Marks(b, qs, dh, Height) = Lines,
         \A nm : Above(qs, dh, Height, nm) <=> Under(nm),
         Height > 1 => qs[Below] = rules[Below],
         qs[cur].node = R.node, qs[cur].preval = R.preval, qs[cur].n = R.n,
         qs[cur].parent = R.parent,
         R.parent = rules[cur].parent, R.n.expr = rules[cur].n.expr,
         (R.node = rules[cur].node /\ ~R.preval) \/ Beyond(Lines, R.node)
  PROVE  ValHolds(b, qs, dh, Height)
<1>1. /\ \/ Beyond(Lines, rules[cur].node)
         \/ Under("expr") /\ rules[cur].node = rules[Below].node
      /\ Height > 1 => Under("expr") \/ Under("paren")
      /\ Under("expr") => rules[cur].n.expr # 0
      /\ rules[cur].parent = IF Height = 1 THEN 0 ELSE Below
      /\ Height \in Nat \ {0}
  BY ValBelow, ChainIs DEF ValHolds, Below, Lines, Under
<1>2. Under("expr") => Height > 1
  BY DEF Under, Above
<1>3. QED
  BY <1>1, <1>2 DEF ValHolds

LEMMA PushExpr ==
  ASSUME Running, rules[cur].name = "val", NEW R, Formed(R), R.name = "val",
         R.parent = rules[cur].parent, R.n.expr = rules[cur].n.expr,
         (R.node = rules[cur].node /\ ~R.preval) \/ Beyond(Lines, R.node),
         Push(R, "expr", rules), arena' = arena, pratt' = NoCall,
         t0' \in ParenOpen \/ (t0' \in DOMAIN Prefix /\ R.n.prefix # 0)
  PROVE  ChainInv'
<1> DEFINE new == Len(rules) + 1
           S   == rules'[cur]
           N   == rules'[new]
<1>1. ~Under("val") /\ Acyclic(arena)
  BY ValBelow DEF Running, ChainInv
<1>2. /\ \A r \in DOMAIN rules \ {cur} : rules'[r] = rules[r]
      /\ IsSeq(rules)
  <2>1. IsSeq(rules)
    BY ChainIs
  <2>2. QED
    BY <2>1, PushRest
<1>3. Rest(rules') /\ Stands(arena') /\ TopKept(R, rules')
  BY <1>1, <1>2, RestSame, StandsStill DEF TopKept
<1>4. /\ /\ S.name = R.name /\ S.state = "close" /\ S.child = new /\ S.node = R.node
         /\ S.n = R.n /\ S.parent = R.parent /\ S.attach = R.attach /\ S.preval = R.preval
      /\ /\ N.name = "expr" /\ N.state = "open" /\ N.child = 0 /\ N.node = R.node
         /\ N.n = R.n /\ N.parent = cur /\ ~N.preval
      /\ Marks(arena', rules', Chain', Height) = Lines
      /\ \A nm : Above(rules', Chain', Height, nm) <=> Under(nm)
      /\ \A nm : Above(rules', Chain', Height + 1, nm) <=> R.name = nm
      /\ Height > 1 => Chain'[Height - 1] = Below
      /\ cur' = new /\ status' = "run" /\ new # 0
      /\ Chain'[Height] = cur /\ Chain'[Height + 1] = new /\ Len(Chain') = Height + 1
      /\ Waits(arena', rules', Chain', Height) /\ Pushed(arena', rules', Chain', Height)
           => Frames(arena', rules', Chain')
  BY <1>2, <1>3, PushOn
<1> HIDE DEF new
<1>5. ValHolds(arena', rules', Chain', Height)
  <2>1. Height > 1 => rules'[Below] = rules[Below]
    BY <1>2, LinesBelow
  <2>2. QED
    BY <1>4, <2>1, ValKept
<1>6. Waits(arena', rules', Chain', Height)
  BY <1>4, <1>5 DEF Waits
<1>7. Pushed(arena', rules', Chain', Height)
  BY <1>4 DEF Pushed, Beyond
<1>8. TopHolds(arena', rules', Chain', t0', pratt')
  <2>1. TopExprOpen(arena', rules', Chain', Height + 1, t0')
    BY <1>4 DEF TopExprOpen
  <2>2. QED
    BY <1>4, <2>1 DEF TopHolds
<1>9. QED
  BY <1>1, <1>4, <1>6, <1>7, <1>8, ChainNext

LEMMA PushParen ==
  ASSUME Running, rules[cur].name = "expr", Under("val"),
         Push(rules[cur], "paren", rules), arena' = arena, pratt' = NoCall
  PROVE  ChainInv'
<1> DEFINE new == Len(rules) + 1
           R   == rules[cur]
           S   == rules'[cur]
           N   == rules'[new]
<1>1. Acyclic(arena) /\ Formed(R)
  BY ChainIs DEF Running, ChainInv
<1>2. /\ \A r \in DOMAIN rules \ {cur} : rules'[r] = rules[r]
      /\ IsSeq(rules)
  <2>1. IsSeq(rules)
    BY ChainIs
  <2>2. QED
    BY <2>1, PushRest
<1>3. Rest(rules') /\ Stands(arena')
  BY <1>2, RestSame, StandsStill
<1>4. Height > 1
  BY DEF Under, Above
<1>5. rules[Below].node.k = "node" \/ Beyond(Lines, R.node)
  <2>1. Height - 1 \in 1..(Len(Chain) - 1) /\ (Height - 1) + 1 = Height
    BY <1>4, ChainIs
  <2>2. Pushed(arena, rules, Chain, Height - 1)
    BY <2>1, ChainIs DEF Frames
  <2>3. QED
    BY <1>4, <2>1, <2>2, ChainIs, LinesBelow DEF Pushed, Below
<1>6. TopKept(R, rules')
  <2>1. rules'[Below] = rules[Below]
    BY <1>2, <1>4, LinesBelow
  <2>2. QED
    BY <1>5, <2>1 DEF TopKept
<1>7. /\ /\ S.name = R.name /\ S.state = "close" /\ S.child = new /\ S.node = R.node
         /\ S.n = R.n /\ S.parent = R.parent /\ S.attach = R.attach /\ S.preval = R.preval
      /\ /\ N.name = "paren" /\ N.state = "open" /\ N.child = 0 /\ N.node = R.node
         /\ N.n = R.n /\ N.parent = cur /\ ~N.preval
      /\ \A nm : Above(rules', Chain', Height, nm) <=> Under(nm)
      /\ \A nm : Above(rules', Chain', Height + 1, nm) <=> R.name = nm
      /\ cur' = new /\ status' = "run" /\ new # 0
      /\ Chain'[Height] = cur /\ Chain'[Height + 1] = new /\ Len(Chain') = Height + 1
      /\ Waits(arena', rules', Chain', Height) /\ Pushed(arena', rules', Chain', Height)
           => Frames(arena', rules', Chain')
  BY <1>1, <1>2, <1>3, <1>6, PushOn
<1> HIDE DEF new
<1>8. Waits(arena', rules', Chain', Height)
  BY <1>7 DEF Waits
<1>9. Pushed(arena', rules', Chain', Height)
  BY <1>7 DEF Pushed
<1>10. TopHolds(arena', rules', Chain', t0', pratt')
  <2>1. TopParen(arena', rules', Chain', Height + 1, t0')
    BY <1>7 DEF TopParen
  <2>2. QED
    BY <1>7, <2>1 DEF TopHolds
<1>11. QED
  BY <1>1, <1>7, <1>8, <1>9, <1>10, ChainNext

LEMMA RestOf ==
  ASSUME NEW others, Rest(others), NEW qs, \A r \in DOMAIN rules \ {cur} : qs[r] = others[r]
  PROVE  Rest(qs)
BY DEF Rest, Alike, Refilled

\* The rule below the top one, as it waits.
LEMMA BelowWaits ==
  ASSUME Running, Height > 1
  PROVE  /\ Waits(arena, rules, Chain, Height - 1) /\ Pushed(arena, rules, Chain, Height - 1)
         /\ Chain[Height - 1] = Below /\ Chain[(Height - 1) + 1] = cur
         /\ Height - 1 \in Nat \ {0} /\ Height - 1 < Height
<1>1. /\ Height - 1 \in 1..(Len(Chain) - 1) /\ (Height - 1) + 1 = Height /\ Chain[Height] = cur
      /\ Height - 1 \in Nat \ {0} /\ Height - 1 < Height
  BY ChainIs
<1>2. QED
  BY <1>1, ChainIs DEF Frames, Below

\* An expr is pushed by a val, or has replaced what a paren pushed or what was
\* the first rule.
LEMMA ExprBelow ==
  ASSUME Running, rules[cur].name = "expr"
  PROVE  ~Under("expr")
<1>1. CASE Height > 1 /\ rules[Below].name = "expr"
  <2>1. Waits(arena, rules, Chain, Height - 1) /\ Pushed(arena, rules, Chain, Height - 1)
        /\ Chain[Height - 1] = Below /\ Chain[(Height - 1) + 1] = cur
    BY <1>1, BelowWaits
  <2>2. rules[Below].child = cur
    BY <1>1, <2>1 DEF Pushed
  <2>3. QED
    BY <1>1, <2>1, <2>2 DEF Waits, Awaits
<1>2. QED
  BY <1>1 DEF Under, Above, Below

\* An operator reads its operand.
LEMMA PushVal ==
  ASSUME Running, rules[cur].name = "expr", NEW R, Formed(R), R.name = "expr",
         NEW others, IsSeq(others), DOMAIN others = DOMAIN rules, Rest(others),
         Push(R, "val", others), pratt' = NoCall, Stands(arena'), Acyclic(arena'),
         R.node = R.attach, Firm(arena', R.node), Beyond(Lines, R.node), R.n.expr # 0,
         \/ /\ Under("val") /\ R.n.prefix # 0 /\ others[Below].node.k = "node"
            /\ R.parent = rules[cur].parent
         \/ /\ ~Under("val") /\ R.parent < cur /\ R.parent \in DOMAIN rules \cup {0}
            /\ Beyond(Lines, Linked(others, R.parent))
  PROVE  ChainInv'
<1> DEFINE new == Len(rules) + 1
           S   == rules'[cur]
           N   == rules'[new]
<1>1. \A r \in DOMAIN rules \ {cur} : rules'[r] = others[r]
  BY PushRest
<1>2. Rest(rules')
  BY <1>1, RestOf
<1>3. ~Under("expr")
  BY ExprBelow
<1>4. Under("val") => rules'[Below].node.k = "node"
  <2>1. Under("val") => Height > 1
    BY DEF Under, Above
  <2>2. QED
    BY <1>1, <2>1, LinesBelow
<1>5. TopKept(R, rules')
  BY <1>3, <1>4 DEF TopKept
<1>6. /\ /\ S.name = R.name /\ S.state = "close" /\ S.child = new /\ S.node = R.node
         /\ S.n = R.n /\ S.parent = R.parent /\ S.attach = R.attach /\ S.preval = R.preval
      /\ /\ N.name = "val" /\ N.state = "open" /\ N.child = 0 /\ N.node = R.node
         /\ N.n = R.n /\ N.parent = cur /\ ~N.preval
      /\ Marks(arena', rules', Chain', Height) = Lines
      /\ \A nm : Above(rules', Chain', Height, nm) <=> Under(nm)
      /\ \A nm : Above(rules', Chain', Height + 1, nm) <=> R.name = nm
      /\ Height > 1 => Chain'[Height - 1] = Below
      /\ Height \in Nat \ {0} /\ Height + 1 # 1 /\ (Height + 1) - 1 = Height
      /\ cur' = new /\ status' = "run" /\ new # 0
      /\ Chain'[Height] = cur /\ Chain'[Height + 1] = new /\ Len(Chain') = Height + 1
      /\ Waits(arena', rules', Chain', Height) /\ Pushed(arena', rules', Chain', Height)
           => Frames(arena', rules', Chain')
  BY <1>2, <1>5, PushOn
<1> HIDE DEF new
<1>7. Awaits(rules', Chain'[Height])
  BY <1>6 DEF Awaits
<1>8. ExprHolds(arena', rules', Chain', Height)
  <2>1. CASE Under("val") /\ R.n.prefix # 0
    <3>1. rules'[Chain'[Height - 1]].node.k = "node"
      BY <1>4, <1>6, <2>1 DEF Under, Above
    <3>2. QED
      BY <1>6, <2>1, <3>1 DEF ExprHolds
  <2>2. CASE /\ ~Under("val") /\ R.parent < cur /\ R.parent \in DOMAIN rules \cup {0}
             /\ Beyond(Lines, Linked(others, R.parent))
    <3>1. Linked(rules', R.parent) = Linked(others, R.parent)
      <4>1. R.parent = 0 \/ R.parent \in DOMAIN rules \ {cur}
        BY <2>2, ChainIs
      <4>2. QED
        BY <1>1, <4>1 DEF Linked
    <3>2. Apart(arena', rules', Chain', Height)
      BY <1>6, <2>2, <3>1 DEF Apart
    <3>3. QED
      BY <1>6, <3>2 DEF ExprHolds
  <2>3. QED
    BY <2>1, <2>2
<1>9. Waits(arena', rules', Chain', Height)
  BY <1>6, <1>7, <1>8 DEF Waits
<1>10. Pushed(arena', rules', Chain', Height)
  BY <1>6 DEF Pushed
<1>11. TopHolds(arena', rules', Chain', t0', pratt')
  <2>1. ValHolds(arena', rules', Chain', Height + 1)
    BY <1>6 DEF ValHolds
  <2>2. TopVal(arena', rules', Chain', Height + 1, t0')
    BY <1>6, <2>1 DEF TopVal
  <2>3. QED
    BY <1>6, <2>2 DEF TopHolds
<1>12. QED
  BY <1>6, <1>9, <1>10, <1>11, ChainNext

\* A paren reads what it holds.
LEMMA PushInner ==
  ASSUME Running, rules[cur].name = "paren", NEW R, Formed(R), R.name = "paren",
         R.node = Undefined, R.parent = rules[cur].parent,
         Push(R, "val", rules), pratt' = NoCall, arena' = arena
  PROVE  ChainInv'
<1> DEFINE new == Len(rules) + 1
           S   == rules'[cur]
           N   == rules'[new]
<1>1. Under("expr") /\ ~Under("val") /\ Acyclic(arena)
  <2>1. TopParen(arena, rules, Chain, Height, t0) /\ Acyclic(arena)
    BY ChainIs DEF TopHolds, Running, ChainInv
  <2>2. QED
    BY <2>1 DEF TopParen, Under, Above
<1>2. IsSeq(rules)
  BY ChainIs
<1>3. \A r \in DOMAIN rules \ {cur} : rules'[r] = rules[r]
  BY <1>2, PushRest
<1>4. Rest(rules') /\ Stands(arena') /\ TopKept(R, rules')
  BY <1>1, <1>3, RestSame, StandsStill DEF TopKept
<1>5. /\ /\ S.name = R.name /\ S.state = "close" /\ S.child = new /\ S.node = R.node
         /\ S.n = R.n /\ S.parent = R.parent /\ S.attach = R.attach /\ S.preval = R.preval
      /\ /\ N.name = "val" /\ N.state = "open" /\ N.child = 0 /\ N.node = R.node
         /\ N.n = R.n /\ N.parent = cur /\ ~N.preval
      /\ \A nm : Above(rules', Chain', Height, nm) <=> Under(nm)
      /\ \A nm : Above(rules', Chain', Height + 1, nm) <=> R.name = nm
      /\ Height \in Nat \ {0} /\ Height + 1 # 1 /\ (Height + 1) - 1 = Height
      /\ cur' = new /\ status' = "run" /\ new # 0
      /\ Chain'[Height] = cur /\ Chain'[Height + 1] = new /\ Len(Chain') = Height + 1
      /\ Waits(arena', rules', Chain', Height) /\ Pushed(arena', rules', Chain', Height)
           => Frames(arena', rules', Chain')
  BY <1>2, <1>4, PushOn
<1> HIDE DEF new
<1>6. Waits(arena', rules', Chain', Height)
  BY <1>1, <1>5 DEF Waits
<1>7. Pushed(arena', rules', Chain', Height)
  BY <1>5 DEF Pushed
<1>8. Beyond(Marks(arena', rules', Chain', Height + 1), Undefined)
  BY DEF Beyond, Undefined
<1>9. TopHolds(arena', rules', Chain', t0', pratt')
  <2>1. ValHolds(arena', rules', Chain', Height + 1)
    BY <1>5, <1>8 DEF ValHolds
  <2>2. TopVal(arena', rules', Chain', Height + 1, t0')
    BY <1>5, <2>1 DEF TopVal
  <2>3. QED
    BY <1>5, <2>2 DEF TopHolds
<1>10. QED
  BY <1>1, <1>5, <1>6, <1>7, <1>9, ChainNext

(***************************************************************************)
(* val: the passes that push.                                              *)
(***************************************************************************)
LEMMA KeepsToken ==
  ASSUME Keep
  PROVE  t0' = t0
BY DEF Keep, t0, Tok

\* The second token in sight comes first.
LEMMA NextToken ==
  ASSUME InputTyped, Consume, t1 # ZZ
  PROVE  t0' = t1
<1>1. /\ input \in Seq(Tokens \cup {ZZ}) /\ at + 1 \in DOMAIN input /\ t1 = input[at + 1]
  BY DEF InputTyped, t1, Tok
<1>2. input' = input \/ \E t \in Tokens \cup {ZZ} : input' = Append(input, t)
  BY DEF Consume, Sighted
<1>3. at + 1 \in DOMAIN input' /\ input'[at + 1] = input[at + 1]
  <2>1. CASE input' = input
    BY <1>1, <2>1
  <2>2. ASSUME NEW t \in Tokens \cup {ZZ}, input' = Append(input, t)
        PROVE  at + 1 \in DOMAIN input' /\ input'[at + 1] = input[at + 1]
    <3>1. IsSeq(input)
      BY <1>1 DEF IsSeq
    <3>2. Len(input) \in Nat /\ DOMAIN input = 1..Len(input)
      BY <3>1, SeqShape
    <3>3. /\ DOMAIN input' = 1..(Len(input) + 1)
          /\ \A i \in 1..Len(input) : input'[i] = input[i]
      BY <2>2, <3>1, SeqAppend
    <3>4. QED
      BY <1>1, <3>2, <3>3
  <2>3. QED
    BY <1>2, <2>1, <2>2
<1>4. at' = at + 1
  BY DEF Consume
<1>5. QED
  BY <1>1, <1>3, <1>4 DEF t0, Tok

LEMMA ValOpenChosen ==
  /\ ValOpenAlt = "prefix" => t0 \in DOMAIN Prefix
  /\ ValOpenAlt = "preval" => t1 \in ParenOpen
  /\ ValOpenAlt = "paren" => t0 \in ParenOpen
  /\ ValOpenAlt = "end" => t0 = ZZ
<1> DEFINE alts == <<
    << t0 \in DOMAIN Prefix, "prefix" >>,
    << t0 = Val /\ t1 \in ParenOpen /\ Opens(t1) \in PrevalActive, "preval" >>,
    << t0 \in ParenOpen /\ Opens(t0) \notin PrevalRequired, "paren" >>,
    << t0 = Val, "value" >>,
    << t0 = ZZ, "end" >>,
    << t0 \in ParenOpen \cup Separators, "base" >> >>
<1>1. ValOpenAlt = FirstMatch(alts) /\ DOMAIN alts = 1..6
  BY DEF ValOpenAlt
<1>2. /\ alts[1][2] = "prefix" /\ alts[2][2] = "preval" /\ alts[3][2] = "paren"
      /\ alts[4][2] = "value" /\ alts[5][2] = "end" /\ alts[6][2] = "base"
  OBVIOUS
<1>3. /\ alts[1][1] => t0 \in DOMAIN Prefix
      /\ alts[2][1] => t1 \in ParenOpen
      /\ alts[3][1] => t0 \in ParenOpen
      /\ alts[5][1] => t0 = ZZ
  BY Zenon
<1> HIDE DEF alts
<1>4. SUFFICES ASSUME FirstMatch(alts) # "none"
               PROVE  /\ FirstMatch(alts) = "prefix" => t0 \in DOMAIN Prefix
                      /\ FirstMatch(alts) = "preval" => t1 \in ParenOpen
                      /\ FirstMatch(alts) = "paren" => t0 \in ParenOpen
                      /\ FirstMatch(alts) = "end" => t0 = ZZ
  BY <1>1
<1>5. PICK i \in 1..6 : alts[i][1] /\ FirstMatch(alts) = alts[i][2]
  BY <1>1, <1>4, FirstMatchHolds
<1>6. i \in {1, 2, 3, 4, 5, 6}
  BY <1>5
<1>7. QED
  BY <1>2, <1>3, <1>5, <1>6

LEMMA BracketTokens ==
  \A t \in ParenOpen \cup ParenClose :
    /\ t # ZZ /\ t \in Tokens /\ t \notin DOMAIN Prefix \cup DOMAIN Infix \cup DOMAIN Suffix
BY TokensAssumption DEF Tokens, Spelled, Bracket

\* The current rule, when it passes.
LEMMA PassIs ==
  ASSUME Running, NEW name, NEW state, Passing(name, state)
  PROVE  /\ rules[cur].name = name /\ rules[cur].state = state /\ pratt = NoCall
         /\ Formed(rules[cur]) /\ rules[cur] \in Rules(Value, Len(rules))
         /\ rules[cur].n.prefix \in Nat /\ rules[cur].n.expr \in Nat
         /\ state = "open" => ~rules[cur].preval /\ rules[cur].child = 0
<1>1. /\ rules[cur].name = name /\ rules[cur].state = state /\ pratt = NoCall
  BY DEF Passing
<1>2. Formed(rules[cur]) /\ rules[cur] \in Rules(Value, Len(rules))
      /\ TopHolds(arena, rules, Chain, t0, pratt)
      /\ Len(Chain) = Height /\ Chain[Height] = cur
  BY ChainIs
<1>3. rules[cur].n \in Counters
  BY <1>2, Fields
<1>4. rules[cur].n.prefix \in Nat /\ rules[cur].n.expr \in Nat
  BY <1>3 DEF Counters
<1>5. state = "open" => ~rules[cur].preval /\ rules[cur].child = 0
  BY <1>1, <1>2 DEF TopHolds
<1>6. QED
  BY <1>1, <1>2, <1>4, <1>5

LEMMA ValOpenPrefixChain ==
  ASSUME Running, ValOpenPrefix
  PROVE  ChainInv'
<1> DEFINE R == [rules[cur] EXCEPT !.n.prefix = @ + 1, !.n.suffix = 0]
<1>1. /\ Passing("val", "open") /\ ValOpenAlt = "prefix" /\ Push(R, "expr", rules) /\ Keep
      /\ arena' = arena /\ pratt' = pratt
  BY DEF ValOpenPrefix
<1>2. /\ rules[cur].name = "val" /\ Formed(rules[cur]) /\ rules[cur].n.prefix \in Nat
      /\ ~rules[cur].preval /\ pratt = NoCall
  BY <1>1, PassIs
<1>3. /\ Formed(R) /\ R.name = "val" /\ R.parent = rules[cur].parent
      /\ R.n.expr = rules[cur].n.expr /\ R.node = rules[cur].node /\ R.preval = rules[cur].preval
      /\ R.n.prefix = rules[cur].n.prefix + 1
  BY <1>2 DEF Formed
<1> HIDE DEF R
<1>4. t0' \in DOMAIN Prefix /\ R.n.prefix # 0
  BY <1>1, <1>2, <1>3, ValOpenChosen, KeepsToken
<1>5. QED
  BY <1>1, <1>2, <1>3, <1>4, PushExpr

LEMMA ValOpenPrevalChain ==
  ASSUME Running, ValOpenPreval
  PROVE  ChainInv'
<1> DEFINE R == [rules[cur] EXCEPT !.value = Leaf(at), !.node = Leaf(at), !.preval = TRUE]
<1>1. /\ Passing("val", "open") /\ ValOpenAlt = "preval" /\ Push(R, "expr", rules) /\ Consume
      /\ arena' = arena /\ pratt' = pratt
  BY DEF ValOpenPreval
<1>2. /\ rules[cur].name = "val" /\ Formed(rules[cur]) /\ pratt = NoCall
  BY <1>1, PassIs
<1>3. /\ Formed(R) /\ R.name = "val" /\ R.parent = rules[cur].parent
      /\ R.n.expr = rules[cur].n.expr /\ R.node = Leaf(at)
  BY <1>2 DEF Formed
<1> HIDE DEF R
<1>4. Beyond(Lines, R.node)
  BY <1>3 DEF Beyond, Leaf
<1>5. t0' \in ParenOpen
  <2>1. InputTyped
    BY DEF Running, TypeInv, Typed
  <2>2. QED
    BY <1>1, <2>1, ValOpenChosen, NextToken, BracketTokens
<1>6. QED
  BY <1>1, <1>2, <1>3, <1>4, <1>5, PushExpr

LEMMA ValOpenParenChain ==
  ASSUME Running, ValOpenParen
  PROVE  ChainInv'
<1>1. /\ Passing("val", "open") /\ ValOpenAlt = "paren" /\ Push(rules[cur], "expr", rules) /\ Keep
      /\ arena' = arena /\ pratt' = pratt
  BY DEF ValOpenParen
<1>2. /\ rules[cur].name = "val" /\ Formed(rules[cur]) /\ ~rules[cur].preval /\ pratt = NoCall
  BY <1>1, PassIs
<1>3. t0' \in ParenOpen
  BY <1>1, ValOpenChosen, KeepsToken
<1>4. QED
  BY <1>1, <1>2, <1>3, PushExpr

\* What a val takes over from what it read.
LEMMA Coalesces ==
  ASSUME Running, Passing("val", "close")
  PROVE  LET V == rules[cur]
             W == ValClosing
         IN  /\ Formed(W) /\ W.name = "val" /\ W.state = "close" /\ W.n = V.n /\ W.parent = V.parent
             /\ W.preval = V.preval /\ W.attach = V.attach /\ W.child = V.child /\ W.d = V.d
             /\ W.attach = Undefined
             /\ W.node = V.node \/ Beyond(Lines, W.node)
             /\ W.node # Undefined \/ t0 = ZZ
             /\ Chained(t0) => Beyond(Lines, W.node)
             /\ W \in Rules(Value, Len(rules))
<1> DEFINE V == rules[cur]
           W == ValClosing
<1>1. /\ V.name = "val" /\ V.state = "close" /\ Formed(V) /\ V \in Rules(Value, Len(rules))
  BY PassIs
<1>2. /\ V.node \in Value /\ V.value.k # "node" /\ V.attach = Undefined
      /\ V.child \in 0..Len(rules)
  BY <1>1, Fields
<1>3. IsOp(arena, V.node) <=> V.node.k = "node"
  BY <1>2 DEF IsOp, Live, Value, Values
<1>4. /\ V.node.k # "node" /\ V.child # 0 => Beyond(Lines, rules[V.child].node)
      /\ ~Beyond(Lines, V.node) => ~Chained(t0)
      /\ \/ V.node.k = "node" \/ V.value # Undefined
         \/ V.child # 0 /\ rules[V.child].node # Undefined
         \/ t0 = ZZ
  <2>1. TopVal(arena, rules, Chain, Height, t0) /\ Chain[Height] = cur
    BY <1>1, ValBelow, ChainIs
  <2>2. QED
    BY <1>1, <2>1 DEF TopVal, Lines
<1>5. /\ Formed(W) /\ W.name = "val" /\ W.state = "close" /\ W.n = V.n /\ W.parent = V.parent
      /\ W.preval = V.preval /\ W.attach = V.attach /\ W.child = V.child /\ W.d = V.d
      /\ W.node = IF IsOp(arena, V.node) THEN V.node
                  ELSE IF NodeOf(V.child) # Undefined THEN NodeOf(V.child) ELSE V.value
  BY <1>1 DEF Formed, ValClosing, Coalesced
<1>6. W \in Rules(Value, Len(rules))
  BY <1>1, <1>2, CoalescedTyped DEF ValClosing, Running
<1> HIDE DEF V, W
<1>7. CASE V.node.k = "node"
  <2>1. W.node = V.node /\ W.node # Undefined
    BY <1>3, <1>5, <1>7 DEF Undefined
  <2>2. QED
    BY <1>2, <1>4, <1>5, <1>6, <2>1 DEF V, W
<1>8. CASE V.node.k # "node" /\ NodeOf(V.child) # Undefined
  <2>1. W.node = NodeOf(V.child) /\ V.child # 0 /\ NodeOf(V.child) = rules[V.child].node
    BY <1>3, <1>5, <1>8 DEF NodeOf
  <2>2. Beyond(Lines, W.node)
    BY <1>4, <1>8, <2>1
  <2>3. QED
    BY <1>2, <1>5, <1>6, <1>8, <2>1, <2>2 DEF V, W
<1>9. CASE V.node.k # "node" /\ NodeOf(V.child) = Undefined
  <2>1. W.node = V.value
    BY <1>3, <1>5, <1>9
  <2>2. Beyond(Lines, W.node)
    BY <1>2, <2>1 DEF Beyond
  <2>3. W.node # Undefined \/ t0 = ZZ
    BY <1>4, <1>9, <2>1 DEF NodeOf
  <2>4. QED
    BY <1>2, <1>5, <1>6, <2>2, <2>3 DEF V, W
<1>10. QED
  BY <1>7, <1>8, <1>9

LEMMA ValCloseChainChain ==
  ASSUME Running, ValCloseChain
  PROVE  ChainInv'
<1> DEFINE R == [ValClosing EXCEPT !.preval = TRUE]
<1>1. /\ Passing("val", "close") /\ ValCloseAlt(ValClosing) = "chain"
      /\ Push(R, "expr", rules) /\ Keep /\ arena' = arena /\ pratt' = pratt
  BY DEF ValCloseChain
<1>2. rules[cur].name = "val" /\ pratt = NoCall
  BY <1>1, PassIs
<1>3. Chained(t0) /\ t0' \in ParenOpen
  BY <1>1, ValCloseChosen, KeepsToken DEF Chained
<1>4. /\ Formed(ValClosing) /\ ValClosing.name = "val" /\ ValClosing.n = rules[cur].n
      /\ ValClosing.parent = rules[cur].parent /\ Beyond(Lines, ValClosing.node)
  BY <1>1, <1>3, Coalesces
<1>5. /\ Formed(R) /\ R.name = "val" /\ R.parent = rules[cur].parent
      /\ R.n.expr = rules[cur].n.expr /\ R.node = ValClosing.node
  BY <1>4 DEF Formed
<1> HIDE DEF R
<1>6. QED
  BY <1>1, <1>2, <1>3, <1>4, <1>5, PushExpr

(***************************************************************************)
(* In place: what is to be shown of a pass that stays.                     *)
(***************************************************************************)
LEMMA StayOn ==
  ASSUME Running, NEW R, NEW others, IsSeq(others), DOMAIN others = DOMAIN rules,
         rules' = [others EXCEPT ![cur] = R], cur' = cur, stack' = stack,
         TopKept(R, rules'), Rest(others), Stands(arena')
  PROVE  /\ rules'[cur] = R
         /\ \A r \in DOMAIN rules \ {cur} : rules'[r] = others[r]
         /\ Marks(arena', rules', Chain', Height) = Lines
         /\ \A nm : Above(rules', Chain', Height, nm) <=> Under(nm)
         /\ Height \in Nat \ {0}
         /\ Height > 1 => Chain'[Height - 1] = Below
         /\ cur' # 0 /\ Chain'[Height] = cur /\ Len(Chain') = Height
         /\ Frames(arena', rules', Chain')
<1>1. /\ DOMAIN rules' = DOMAIN rules /\ rules'[cur] = R
      /\ \A r \in DOMAIN rules \ {cur} : rules'[r] = others[r]
      /\ Chain' = Chain
  BY StayShape
<1>2. /\ Height \in Nat \ {0} /\ Len(Chain) = Height /\ Chain[Height] = cur
      /\ cur \in DOMAIN rules /\ DOMAIN rules = 1..Len(rules) /\ Len(rules) \in Nat
  BY ChainIs
<1>3. Rest(rules')
  BY <1>1, RestOf
<1>4. Leaves(arena, arena', rules, rules', Chain, Chain', Height - 1)
  BY <1>1, <1>3, PassLeaves DEF TopKept
<1>5. /\ Marks(arena', rules', Chain', Height) = Lines
      /\ \A nm : Above(rules', Chain', Height, nm) <=> Under(nm)
  BY <1>4, SameLines
<1>6. Height > 1 => Pushed(arena', rules', Chain', Height - 1)
  BY <1>1, <1>2, <1>4, TopPushed DEF TopKept
<1>7. Frames(arena', rules', Chain')
  <2>1. Len(Chain') = Height /\ Chain'[Height] \in Nat /\ Chain'[Height] >= cur
    BY <1>1, <1>2
  <2>2. QED
    BY <1>4, <1>6, <2>1, TopFrames
<1>8. Height > 1 => Chain'[Height - 1] = Below
  BY <1>1 DEF Below
<1>9. cur' # 0 /\ Chain'[Height] = cur /\ Len(Chain') = Height
  <2>1. cur # 0
    BY <1>2
  <2>2. QED
    BY <1>1, <1>2, <2>1
<1>10. QED
  BY <1>1, <1>2, <1>5, <1>7, <1>8, <1>9

LEMMA ValStays ==
  ASSUME Running, rules[cur].name = "val", NEW R, Formed(R), R.name = "val",
         R.parent = rules[cur].parent, R.n.expr = rules[cur].n.expr, R.child = 0, ~R.preval,
         R.node = rules[cur].node \/ Beyond(Lines, R.node),
         R.node.k = "node" \/ R.value # Undefined \/ t0' = ZZ,
         ~Beyond(Lines, R.node) => ~Chained(t0'), R.state = "close",
         rules' = [rules EXCEPT ![cur] = R], cur' = cur, stack' = stack, arena' = arena,
         pratt' = NoCall
  PROVE  ChainInv'
<1>1. ~Under("val") /\ Acyclic(arena) /\ IsSeq(rules)
  BY ValBelow, ChainIs DEF Running, ChainInv
<1>2. TopKept(R, rules') /\ Rest(rules) /\ Stands(arena')
  BY <1>1, RestSame, StandsStill DEF TopKept
<1>3. /\ rules'[cur] = R
      /\ \A r \in DOMAIN rules \ {cur} : rules'[r] = rules[r]
      /\ Marks(arena', rules', Chain', Height) = Lines
      /\ \A nm : Above(rules', Chain', Height, nm) <=> Under(nm)
      /\ Height > 1 => Chain'[Height - 1] = Below
      /\ cur' # 0 /\ Chain'[Height] = cur /\ Len(Chain') = Height
      /\ Frames(arena', rules', Chain')
  BY <1>1, <1>2, StayOn
<1>4. ValHolds(arena', rules', Chain', Height)
  <2>1. Height > 1 => rules'[Below] = rules[Below]
    BY <1>3, LinesBelow
  <2>2. QED
    BY <1>3, <2>1, ValKept
<1>5. TopVal(arena', rules', Chain', Height, t0')
  BY <1>3, <1>4 DEF TopVal
<1>6. TopHolds(arena', rules', Chain', t0', pratt')
  BY <1>3, <1>5 DEF TopHolds
<1>7. QED
  BY <1>1, <1>3, <1>6, ChainNext

LEMMA ValOpenValueChain ==
  ASSUME Running, ValOpenValue
  PROVE  ChainInv'
<1> DEFINE R == [rules[cur] EXCEPT !.value = Leaf(at), !.node = Undefined]
           S == [R EXCEPT !.state = "close"]
<1>1. /\ Passing("val", "open") /\ Stay(R, rules) /\ arena' = arena /\ pratt' = pratt
  BY DEF ValOpenValue
<1>2. /\ rules[cur].name = "val" /\ Formed(rules[cur]) /\ ~rules[cur].preval
      /\ rules[cur].child = 0 /\ pratt = NoCall
  BY <1>1, PassIs
<1>3. /\ rules' = [rules EXCEPT ![cur] = S] /\ cur' = cur /\ stack' = stack
  BY <1>1 DEF Stay
<1>4. /\ Formed(R) /\ R.name = "val" /\ R.parent = rules[cur].parent /\ ~R.preval
      /\ R.n.expr = rules[cur].n.expr /\ R.node = Undefined /\ R.value = Leaf(at) /\ R.child = 0
  BY <1>2 DEF Formed
<1> HIDE DEF R
<1>5. /\ Formed(S) /\ S.name = "val" /\ S.parent = rules[cur].parent /\ ~S.preval
      /\ S.n.expr = rules[cur].n.expr /\ S.node = Undefined /\ S.value = Leaf(at) /\ S.child = 0
      /\ S.state = "close"
  BY <1>4 DEF Formed
<1> HIDE DEF S
<1>6. Beyond(Lines, S.node) /\ S.value # Undefined
  BY <1>5 DEF Beyond, Undefined, Leaf
<1>7. QED
  BY <1>1, <1>2, <1>3, <1>5, <1>6, ValStays

LEMMA ValOpenEndChain ==
  ASSUME Running, ValOpenEnd
  PROVE  ChainInv'
<1> DEFINE S == [rules[cur] EXCEPT !.state = "close"]
<1>1. /\ Passing("val", "open") /\ ValOpenAlt = "end" /\ Stay(rules[cur], rules) /\ Keep
      /\ arena' = arena /\ pratt' = pratt
  BY DEF ValOpenEnd
<1>2. /\ rules[cur].name = "val" /\ Formed(rules[cur]) /\ ~rules[cur].preval
      /\ rules[cur].child = 0 /\ pratt = NoCall
  BY <1>1, PassIs
<1>3. /\ rules' = [rules EXCEPT ![cur] = S] /\ cur' = cur /\ stack' = stack
  BY <1>1 DEF Stay
<1>4. /\ Formed(S) /\ S.name = "val" /\ S.parent = rules[cur].parent /\ ~S.preval
      /\ S.n.expr = rules[cur].n.expr /\ S.node = rules[cur].node /\ S.child = 0
      /\ S.state = "close"
  BY <1>2 DEF Formed
<1> HIDE DEF S
<1>5. t0' = ZZ /\ ~Chained(t0')
  BY <1>1, ValOpenChosen, KeepsToken, BracketTokens DEF Chained
<1>6. QED
  BY <1>1, <1>2, <1>3, <1>4, <1>5, ValStays

(***************************************************************************)
(* An operator that follows a term, or a whole expression, replaces the    *)
(* rule that read it.                                                      *)
(***************************************************************************)
\* Neither below a val nor below an expr: below a paren, or the first rule.
LEMMA UnderParen ==
  ASSUME Running, ~Under("val"), ~Under("expr"), Height > 1
  PROVE  /\ Under("paren") /\ rules[Below].name = "paren" /\ rules[Below].node = Undefined
         /\ Linked(rules, Below) = Undefined
         /\ Waits(arena, rules, Chain, Height - 1)
         /\ \/ rules[Below].child = cur /\ rules[cur].name = "val"
            \/ /\ rules[Below].child < cur /\ rules[cur].name = "expr"
               /\ Inside(arena, rules, Chain, Height - 1)
<1>1. Waits(arena, rules, Chain, Height - 1) /\ Pushed(arena, rules, Chain, Height - 1)
      /\ Chain[Height - 1] = Below /\ Chain[(Height - 1) + 1] = cur
  BY BelowWaits
<1>2. /\ Below \in DOMAIN rules /\ rules[Below].name # "val" /\ rules[Below].name # "expr"
      /\ \A name : Under(name) <=> rules[Below].name = name
  BY LinesBelow
<1>3. rules[Below].name = "paren" /\ rules[Below].node = Undefined
  BY <1>1, <1>2 DEF Waits, Awaits
<1>4. rules[Below].attach = Undefined
  <2>1. rules[Below] \in Rules(Value, Len(rules))
    BY <1>2, ChainIs
  <2>2. QED
    BY <1>3, <2>1, Fields
<1>5. Linked(rules, Below) = Undefined
  BY <1>3, <1>4 DEF Linked, Undefined
<1>6. \/ rules[Below].child = cur /\ rules[cur].name = "val"
      \/ /\ rules[Below].child < cur /\ rules[cur].name = "expr"
         /\ Inside(arena, rules, Chain, Height - 1)
  BY <1>1, <1>3 DEF Pushed
<1>7. QED
  BY <1>1, <1>2, <1>3, <1>5, <1>6

LEMMA Replaces ==
  ASSUME Running, rules[cur].name \in {"val", "expr"}, ~Under("val"), ~Under("expr"),
         rules[cur].parent < cur, Beyond(Lines, Linked(rules, rules[cur].parent)),
         NEW R, R.name = rules[cur].name, R.name = "val" \/ R.attach.k = "node",
         Beyond(Lines, IF R.attach.k = "node" THEN R.attach ELSE R.node),
         R.name = "val" => R.node # Undefined /\ Beyond(Lines, R.node),
         NEW S, S.name = "expr", S.state = "open", S.child = 0, ~S.preval, S.prev = cur,
         S.n.prefix = 0, S.parent = rules[cur].parent,
         rules' = Append([rules EXCEPT ![cur] = R], S), cur' = Len(rules) + 1,
         stack' = stack, t0' \in DOMAIN Infix \cup DOMAIN Suffix,
         pratt' = NoCall, Stands(arena'), Acyclic(arena')
  PROVE  ChainInv'
<1> DEFINE new == Len(rules) + 1
<1>1. /\ new \in Nat /\ new > cur /\ DOMAIN rules' = 1..new /\ rules'[cur] = R
      /\ \A r \in DOMAIN rules \ {cur} : rules'[r] = rules[r]
      /\ rules'[new] = S
      /\ Len(Chain') = Height /\ \A i \in 1..(Height - 1) : Chain'[i] = Chain[i]
      /\ Chain'[Height] = new
  BY ReplaceShape
<1>2. /\ Height \in Nat \ {0} /\ cur \in DOMAIN rules /\ DOMAIN rules = 1..Len(rules)
      /\ Len(rules) \in Nat /\ Len(Chain) = Height /\ Chain[Height] = cur
      /\ Sorted(rules, Chain) /\ Frames(arena, rules, Chain)
      /\ (Height - 1) + 1 = Height /\ Height \in 1..((Height - 1) + 1)
  BY ChainIs
<1>3. cur' = new
  OBVIOUS
<1> HIDE DEF new
<1>4. Leaves(arena, arena', rules, rules', Chain, Chain', Height - 1)
  <2>1. Rest(rules')
    BY <1>1, RestSame
  <2>2. DOMAIN rules \subseteq DOMAIN rules'
    BY <1>1, <1>2 DEF new
  <2>3. rules'[cur].name = rules[cur].name
    BY <1>1
  <2>4. \A i \in 1..(Height - 1) : Chain'[i] = Chain[i]
    BY <1>1
  <2>5. QED
    BY <2>1, <2>2, <2>3, <2>4, PassLeaves
<1>5. /\ Marks(arena', rules', Chain', Height) = Lines
      /\ \A nm : Above(rules', Chain', Height, nm) <=> Under(nm)
  BY <1>4, SameLines
<1>6. ASSUME Height > 1
      PROVE  Pushed(arena', rules', Chain', Height - 1)
  <2>1. /\ Chain'[Height - 1] = Below /\ Chain'[(Height - 1) + 1] = new
        /\ Height - 1 \in 1..(Height - 1) /\ Below \in DOMAIN rules /\ Below # cur
        /\ Height - 1 \in 1..((Height - 1) + 1)
    BY <1>1, <1>2, <1>6, LinesBelow DEF Below
  <2>2. /\ rules'[Below] = rules[Below] /\ rules[Below].name = "paren"
        /\ \/ rules[Below].child = cur /\ rules[cur].name = "val"
           \/ /\ rules[Below].child < cur /\ rules[cur].name = "expr"
              /\ Inside(arena, rules, Chain, Height - 1)
    BY <1>1, <1>6, <2>1, UnderParen
  <2>3. CASE rules[Below].child = cur /\ rules[cur].name = "val"
    <3>1. Marks(arena', rules', Chain', Height - 1) = Lines
      <4>1. Lines = Marks(arena, rules, Chain, Height - 1)
        BY <1>6, <2>2, LinesBelow
      <4>2. Marks(arena', rules', Chain', Height - 1) = Marks(arena, rules, Chain, Height - 1)
        BY <1>2, <1>4, <2>1, LeftMarks
      <4>3. QED
        BY <4>1, <4>2
    <3>2. cur # 0 /\ cur < new
      BY <1>1, <1>2
    <3>3. Inside(arena', rules', Chain', Height - 1)
      <4>1. /\ rules'[Chain'[Height - 1]].child = cur /\ rules'[cur].name = "val"
            /\ rules'[cur].node # Undefined /\ Beyond(Lines, rules'[cur].node)
        <5>1. R.name = "val"
          BY <2>3
        <5>2. R.node # Undefined /\ Beyond(Lines, R.node)
          BY <5>1
        <5>3. rules'[Chain'[Height - 1]].child = cur
          BY <2>1, <2>2, <2>3
        <5>4. QED
          BY <1>1, <5>1, <5>2, <5>3
      <4>2. QED
        BY <3>1, <3>2, <4>1 DEF Inside
    <3>4. QED
      BY <1>1, <2>1, <2>2, <2>3, <3>2, <3>3 DEF Pushed
  <2>4. CASE /\ rules[Below].child < cur /\ rules[cur].name = "expr"
             /\ Inside(arena, rules, Chain, Height - 1)
    <3>1. rules[Chain[Height - 1]].child < Chain[(Height - 1) + 1]
      BY <1>2, <2>4 DEF Below
    <3>2. Inside(arena', rules', Chain', Height - 1)
      BY <1>2, <1>4, <2>1, <2>4, <3>1, LeftInside
    <3>3. rules[Below].child < new
      <4>1. rules[Below].child \in Nat
        BY <1>2, <2>1 DEF Sorted
      <4>2. QED
        BY <1>1, <1>2, <2>4, <4>1
    <3>4. QED
      BY <1>1, <2>1, <2>2, <3>2, <3>3 DEF Pushed
  <2>5. QED
    BY <2>2, <2>3, <2>4
<1>7. Frames(arena', rules', Chain')
  <2>1. Chain'[Height] \in Nat /\ Chain'[Height] >= cur /\ Len(Chain') = Height
    BY <1>1, <1>2
  <2>2. QED
    BY <1>4, <1>6, <2>1, TopFrames
<1>8. Apart(arena', rules', Chain', Height)
  <2>1. rules[cur].parent \in DOMAIN rules \cup {0}
    BY <1>2 DEF Sorted
  <2>2. Beyond(Marks(arena', rules', Chain', Height), Linked(rules', rules[cur].parent))
    <3>1. Beyond(Marks(arena, rules, Chain, Height), Linked(rules, rules[cur].parent))
          /\ rules[cur].parent < Chain[(Height - 1) + 1]
      BY <1>2 DEF Lines
    <3>2. QED
      BY <1>2, <1>4, <2>1, <3>1, LeftLinked
  <2>3. rules[cur].parent < new
    <3>1. rules[cur].parent \in Nat /\ cur \in Nat
      BY <1>2, <2>1
    <3>2. cur < new /\ new \in Nat /\ rules[cur].parent < cur
      BY <1>1
    <3> DEFINE p == rules[cur].parent
    <3>3. p \in Nat /\ p < cur
      BY <3>1, <3>2
    <3> HIDE DEF p
    <3>4. p < new
      BY <3>1, <3>2, <3>3
    <3>5. QED
      BY <3>4 DEF p
  <2>4. QED
    BY <1>1, <1>5, <2>2, <2>3 DEF Apart
<1>9. TopExprOpen(arena', rules', Chain', Height, t0')
  <2>1. Linked(rules', cur) = IF R.attach.k = "node" THEN R.attach ELSE R.node
    BY <1>1, <1>2 DEF Linked
  <2>2. cur # 0
    BY <1>2
  <2>3. QED
    BY <1>1, <1>5, <1>8, <2>1, <2>2 DEF TopExprOpen
<1>10. TopHolds(arena', rules', Chain', t0', pratt')
  BY <1>1, <1>9 DEF TopHolds
<1>11. cur' # 0
  BY <1>1, <1>2, <1>3
<1>12. QED
  BY <1>7, <1>10, <1>11, ChainNext

LEMMA ValCloseOperatorReplace ==
  ASSUME Running, Passing("val", "close"), NEW R, Formed(R), R.name = "val",
         R.node = ValClosing.node, R.attach = Undefined, R.parent = ValClosing.parent,
         R.n.expr = rules[cur].n.expr, R.n.expr = 0, R.n.prefix = 0,
         Replace(R, "expr", rules), t0 \in DOMAIN Infix \cup DOMAIN Suffix, Keep,
         arena' = arena, pratt' = NoCall
  PROVE  ChainInv'
<1> DEFINE S == Rule("expr", R.node, R.n, R.parent, cur, R.d)
<1>1. rules[cur].name = "val"
  BY PassIs
<1>2. /\ ValHolds(arena, rules, Chain, Height) /\ ~Under("val") /\ Acyclic(arena)
      /\ Height \in Nat \ {0} /\ Chain[Height] = cur /\ cur \in DOMAIN rules
      /\ DOMAIN rules = 1..Len(rules) /\ Len(rules) \in Nat
  BY <1>1, ValBelow, ChainIs DEF Running, ChainInv
<1>3. ~Under("expr")
  BY <1>1, <1>2 DEF ValHolds, Under
<1>4. Beyond(Lines, rules[cur].node)
  BY <1>2, <1>3 DEF ValHolds, Under, Lines
<1>5. /\ ValClosing.node = rules[cur].node \/ Beyond(Lines, ValClosing.node)
      /\ ValClosing.node # Undefined \/ t0 = ZZ
      /\ ValClosing.parent = rules[cur].parent
  BY Coalesces
<1>6. t0 # ZZ
  BY TokensAssumption DEF Tokens
<1>7. R.node # Undefined /\ Beyond(Lines, R.node)
  BY <1>4, <1>5, <1>6
<1>8. rules[cur].parent < cur /\ Beyond(Lines, Linked(rules, rules[cur].parent))
  <2>1. CASE Height = 1
    <3>1. rules[cur].parent = 0
      BY <1>2, <2>1 DEF ValHolds
    <3>2. QED
      BY <1>2, <3>1 DEF Linked, Beyond, Undefined
  <2>2. CASE Height # 1
    <3>1. rules[cur].parent = Below /\ Height > 1
      BY <1>2, <2>2 DEF ValHolds, Below
    <3>2. Linked(rules, Below) = Undefined
      BY <1>2, <1>3, <3>1, UnderParen
    <3>3. Below < cur
      BY <3>1, LinesBelow
    <3>4. QED
      BY <3>1, <3>2, <3>3 DEF Beyond, Undefined
  <2>3. QED
    BY <2>1, <2>2
<1>9. /\ S.name = "expr" /\ S.state = "open" /\ S.child = 0 /\ ~S.preval /\ S.prev = cur
      /\ S.n.prefix = 0 /\ S.parent = rules[cur].parent
  BY <1>5 DEF Rule
<1>10. /\ rules' = Append([rules EXCEPT ![cur] = R], S) /\ cur' = Len(rules) + 1
       /\ stack' = stack
  BY DEF Replace
<1> HIDE DEF S
<1>11. R.attach.k # "node"
  BY DEF Undefined
<1>12. t0' \in DOMAIN Infix \cup DOMAIN Suffix
  BY KeepsToken
<1>13. Stands(arena') /\ Acyclic(arena')
  BY <1>2, StandsStill
<1>14. Beyond(Lines, IF R.attach.k = "node" THEN R.attach ELSE R.node)
  BY <1>7, <1>11
<1>15. R.name = rules[cur].name /\ rules[cur].name \in {"val", "expr"}
  BY <1>1
<1>16. QED
  BY <1>2, <1>3, <1>7, <1>8, <1>9, <1>10, <1>12, <1>13, <1>14, <1>15, Replaces

(***************************************************************************)
(* A rule that is done: the one below it is on top again.                  *)
(***************************************************************************)
LEMMA PopOn ==
  ASSUME Running, NEW R, NEW others, NEW next, IsSeq(others), DOMAIN others = DOMAIN rules,
         Pop(R, others, next), R.name = rules[cur].name, Rest(others), Stands(arena'),
         status' = "run"
  PROVE  /\ rules'[cur] = R
         /\ \A r \in DOMAIN rules \ {cur} : rules'[r] = others[r]
         /\ Height > 1 /\ cur' = Below /\ cur' # 0
         /\ Len(Chain') = Height - 1 /\ Chain'[Height - 1] = Below
         /\ Height > 2 => Chain'[(Height - 1) - 1] = Chain[(Height - 1) - 1]
         /\ Leaves(arena, arena', rules, rules', Chain, Chain', Height - 1)
         /\ Frames(arena', rules', Chain') /\ Waits(arena', rules', Chain', Height - 1)
         /\ Marks(arena', rules', Chain', Height - 1) = Marks(arena, rules, Chain, Height - 1)
         /\ \A nm : Above(rules', Chain', Height - 1, nm) <=> Above(rules, Chain, Height - 1, nm)
<1>1. /\ DOMAIN rules' = DOMAIN rules /\ rules'[cur] = R
      /\ \A r \in DOMAIN rules \ {cur} : rules'[r] = others[r]
      /\ Height > 1 /\ cur' = Below /\ cur' # 0 /\ Len(Chain') = Height - 1
      /\ \A i \in 1..(Height - 1) : Chain'[i] = Chain[i]
  BY PopShape
<1>2. Rest(rules')
  BY <1>1, RestOf
<1>3. Leaves(arena, arena', rules, rules', Chain, Chain', Height - 1)
  BY <1>1, <1>2, PassLeaves
<1>4. Frames(arena', rules', Chain') /\ Waits(arena', rules', Chain', Height - 1)
  BY <1>1, <1>3, PopFrames
<1>5. /\ Height \in Nat \ {0} /\ Sorted(rules, Chain) /\ Frames(arena, rules, Chain)
      /\ Height - 1 \in 1..((Height - 1) + 1) /\ Height - 1 \in 1..(Height - 1)
      /\ Height > 2 => (Height - 1) - 1 \in 1..(Height - 1)
  BY <1>1, ChainIs
<1>6. /\ Marks(arena', rules', Chain', Height - 1) = Marks(arena, rules, Chain, Height - 1)
      /\ \A nm : Above(rules', Chain', Height - 1, nm) <=> Above(rules, Chain, Height - 1, nm)
  BY <1>3, <1>5, LeftMarks
<1>7. Chain'[Height - 1] = Below
  BY <1>1, <1>5 DEF Below
<1>8. Height > 2 => Chain'[(Height - 1) - 1] = Chain[(Height - 1) - 1]
  BY <1>1, <1>5
<1>9. QED
  BY <1>1, <1>3, <1>4, <1>6, <1>7, <1>8

LEMMA Halted ==
  ASSUME Acyclic(arena'), status' # "run"
  PROVE  ChainInv'
BY DEF ChainInv

LEMMA ValPops ==
  ASSUME Running, rules[cur].name = "val", NEW R, R.name = "val",
         R.node = rules[cur].node \/ Beyond(Lines, R.node),
         R.node # Undefined \/ t0' = ZZ, ~Chained(t0'),
         NEW next, Pop(R, rules, next), arena' = arena, pratt' = NoCall
  PROVE  ChainInv'
<1>1. Acyclic(arena') /\ IsSeq(rules)
  BY ChainIs DEF Running, ChainInv
<1>2. CASE status' # "run"
  BY <1>1, <1>2, Halted
<1>3. CASE status' = "run"
  <2>1. Rest(rules) /\ Stands(arena')
    BY RestSame, StandsStill
  <2>2. /\ rules'[cur] = R
        /\ \A r \in DOMAIN rules \ {cur} : rules'[r] = rules[r]
        /\ Height > 1 /\ cur' = Below /\ cur' # 0
        /\ Len(Chain') = Height - 1 /\ Chain'[Height - 1] = Below
        /\ Frames(arena', rules', Chain') /\ Waits(arena', rules', Chain', Height - 1)
        /\ Marks(arena', rules', Chain', Height - 1) = Marks(arena, rules, Chain, Height - 1)
        /\ \A nm : Above(rules', Chain', Height - 1, nm) <=> Above(rules, Chain, Height - 1, nm)
    BY <1>1, <1>3, <2>1, PopOn
  <2>3. Waits(arena, rules, Chain, Height - 1) /\ Pushed(arena, rules, Chain, Height - 1)
        /\ Chain[Height - 1] = Below /\ Chain[(Height - 1) + 1] = cur
    BY <2>2, BelowWaits
  <2>4. /\ Below \in DOMAIN rules /\ Below # cur
        /\ \A name : Under(name) <=> rules[Below].name = name
        /\ Lines = Marks(arena, rules, Chain, Height - 1)
                     \cup (IF Awaits(rules, Below) THEN {Mark(arena, rules[Below].node)} ELSE {})
    BY <2>2, LinesBelow
  <2>5. rules'[Below] = rules[Below] /\ cur # 0 /\ cur \in DOMAIN rules
    BY <2>2, <2>4, ChainIs
  <2>6. ValHolds(arena, rules, Chain, Height) /\ ~Under("val")
    BY ValBelow
  <2>7. CASE rules[Below].name = "expr"
    <3>1. rules[Below].child = cur /\ Awaits(rules, Below)
      BY <2>3, <2>5, <2>7 DEF Pushed, Awaits
    <3>2. rules'[Below].child = cur /\ Awaits(rules', Below) /\ rules'[cur].node = R.node
          /\ rules'[cur].name = "val"
      BY <2>2, <2>5, <2>7, <3>1 DEF Awaits
    <3>3. /\ rules'[Below].state = "close" /\ ExprHolds(arena', rules', Chain', Height - 1)
          /\ rules'[Below].name = "expr"
      BY <2>2, <2>5, <2>7, <3>1, <3>2 DEF Waits
    <3>4. \/ R.node = rules[Below].node
          \/ Beyond(Marks(arena, rules, Chain, Height - 1) \cup {Mark(arena, rules[Below].node)},
                    R.node)
      <4>1. \/ Beyond(Lines, rules[cur].node) \/ rules[cur].node = rules[Below].node
        BY <2>6, ChainIs DEF ValHolds, Lines, Below
      <4>2. Lines = Marks(arena, rules, Chain, Height - 1) \cup {Mark(arena, rules[Below].node)}
        BY <2>4, <3>1
      <4>3. R.node = rules[cur].node \/ Beyond(Lines, R.node)
        OBVIOUS
      <4>4. QED
        BY <4>1, <4>2, <4>3
    <3>5. TopExprClose(arena', rules', Chain', Height - 1, t0')
      <4>1. \/ rules'[rules'[Below].child].node = rules'[Below].node
            \/ Beyond(Marks(arena', rules', Chain', Height - 1)
                        \cup {Mark(arena', rules'[Below].node)}, rules'[rules'[Below].child].node)
        BY <2>2, <2>5, <3>2, <3>4
      <4>2. QED
        BY <2>2, <3>2, <3>3, <4>1 DEF TopExprClose
    <3>6. TopHolds(arena', rules', Chain', t0', pratt')
      BY <2>2, <3>3, <3>5 DEF TopHolds
    <3>7. QED
      BY <1>1, <2>2, <3>6, ChainNext
  <2>8. CASE rules[Below].name # "expr"
    <3>1. ~Under("expr")
      BY <2>4, <2>8
    <3>2. rules[Below].name = "paren" /\ rules[Below].child = cur
      BY <2>2, <2>6, <3>1, UnderParen
    <3>3. /\ rules'[Below].state = "close" /\ rules'[Below].name = "paren"
          /\ rules'[Below].node = Undefined /\ Above(rules', Chain', Height - 1, "expr")
          /\ rules'[Below].child = cur /\ rules'[cur].name = "val"
      BY <2>2, <2>5, <3>2 DEF Waits, Awaits
    <3>4. Beyond(Marks(arena', rules', Chain', Height - 1), R.node)
      <4>1. Lines = Marks(arena, rules, Chain, Height - 1)
        BY <2>4, <3>2 DEF Awaits
      <4>2. Beyond(Lines, R.node)
        BY <2>6, <3>1, ChainIs DEF ValHolds, Lines, Under
      <4>3. QED
        BY <2>2, <4>1, <4>2
    <3>5. TopParen(arena', rules', Chain', Height - 1, t0')
      BY <2>2, <2>5, <3>3, <3>4 DEF TopParen
    <3>6. TopHolds(arena', rules', Chain', t0', pratt')
      BY <2>2, <3>3, <3>5 DEF TopHolds
    <3>7. QED
      BY <1>1, <2>2, <3>6, ChainNext
  <2>9. QED
    BY <2>7, <2>8
<1>4. QED
  BY <1>2, <1>3

LEMMA ValClosePopChain ==
  ASSUME Running, ValClosePop
  PROVE  ChainInv'
<1>1. /\ Passing("val", "close") /\ ValCloseAlt(ValClosing) = "pop"
      /\ Pop(ValClosing, rules, t0) /\ Keep /\ arena' = arena /\ pratt' = pratt
  BY DEF ValClosePop
<1>2. rules[cur].name = "val" /\ pratt = NoCall
  BY <1>1, PassIs
<1>3. /\ ValClosing.name = "val"
      /\ ValClosing.node = rules[cur].node \/ Beyond(Lines, ValClosing.node)
      /\ ValClosing.node # Undefined \/ t0 = ZZ
  BY <1>1, Coalesces
<1>4. t0' = t0
  BY <1>1, KeepsToken
<1>5. ~Chained(t0)
  BY <1>1, <1>3, ValCloseChosen, BracketTokens DEF Chained
<1>6. QED
  BY <1>1, <1>2, <1>3, <1>4, <1>5, ValPops

LEMMA ValCloseOperatorChain ==
  ASSUME Running, ValCloseOperator
  PROVE  ChainInv'
<1> DEFINE W == ValClosing
           R == IF ValCloseAlt(W) = "infix"
                THEN [W EXCEPT !.n.prefix = 0, !.n.suffix = 0]
                ELSE [W EXCEPT !.n.prefix = 0, !.n.suffix = @ + 1]
<1>1. /\ Passing("val", "close") /\ ValCloseAlt(W) \in {"infix", "suffix"}
      /\ IF R.n.expr = 0 THEN Replace(R, "expr", rules) ELSE Pop(R, rules, t0)
      /\ Keep /\ arena' = arena /\ pratt' = pratt
  BY DEF ValCloseOperator
<1>2. rules[cur].name = "val" /\ pratt = NoCall
  BY <1>1, PassIs
<1>3. /\ Formed(W) /\ W.name = "val" /\ W.n = rules[cur].n /\ W.attach = Undefined
      /\ W.node = rules[cur].node \/ Beyond(Lines, W.node)
      /\ W.node # Undefined \/ t0 = ZZ
  BY <1>1, Coalesces
<1>4. /\ Formed(R) /\ R.name = "val" /\ R.node = W.node /\ R.attach = W.attach
      /\ R.parent = W.parent /\ R.n.expr = W.n.expr /\ R.n.prefix = 0
  BY <1>3 DEF Formed
<1> HIDE DEF R
<1>5. t0 \in DOMAIN Infix \cup DOMAIN Suffix
  BY <1>1, ValCloseChosen
<1>6. CASE R.n.expr = 0
  <2>1. Replace(R, "expr", rules)
    BY <1>1, <1>6
  <2>2. QED
    BY <1>1, <1>2, <1>3, <1>4, <1>5, <1>6, <2>1, ValCloseOperatorReplace
<1>7. CASE R.n.expr # 0
  <2>1. Pop(R, rules, t0)
    BY <1>1, <1>7
  <2>2. ~Chained(t0') /\ t0' = t0
    BY <1>1, <1>5, KeepsToken, BracketTokens DEF Chained
  <2>3. QED
    BY <1>1, <1>2, <1>3, <1>4, <2>1, <2>2, ValPops
<1>8. QED
  BY <1>6, <1>7

(***************************************************************************)
(* expr: opening.                                                          *)
(***************************************************************************)
LEMMA LinkedIs ==
  ASSUME TypeInv, NEW r \in 0..Len(rules)
  PROVE  LinkedNode(r) = Linked(rules, r) /\ NodeOf(r) \in Value /\ Linked(rules, r) \in Value
<1>1. NodeOf(r) \in Value /\ LinkedNode(r) \in Value
  BY NodesAre
<1>2. CASE r = 0
  BY <1>1, <1>2 DEF LinkedNode, NodeOf, Linked
<1>3. CASE r # 0
  <2>1. rules[r].attach \in Value
    <3>1. rules \in Seq(Rules(Value, Len(rules)))
      BY DEF TypeInv, Typed, StackTyped
    <3>2. r \in DOMAIN rules
      BY <1>3, <3>1, LenProperties
    <3>3. rules[r] \in Rules(Value, Len(rules))
      BY <3>1, <3>2, ElementOfSeq, LenProperties
    <3>4. QED
      BY <3>3, Fields
  <2>2. IsOp(arena, rules[r].attach) <=> rules[r].attach.k = "node"
    BY <2>1 DEF IsOp, Live, Value, Values
  <2>3. LinkedNode(r) = Linked(rules, r)
    BY <1>3, <2>2 DEF LinkedNode, NodeOf, Linked
  <2>4. QED
    BY <1>1, <2>3
<1>4. QED
  BY <1>2, <1>3

LEMMA NodeLives ==
  ASSUME NEW v \in Value
  PROVE  IsOp(arena, v) <=> v.k = "node"
BY DEF IsOp, Live, Value, Values

\* What a val that pushed the current rule has for it.
LEMMA SeedBelow ==
  ASSUME Running, Under("val")
  PROVE  /\ rules[Below].node.k = "node" \/ Beyond(Lines, rules[cur].node)
         /\ rules[cur].name = "expr" /\ rules[cur].parent = Below /\ rules[Below].child = cur
         /\ rules[Below].name = "val" /\ Linked(rules, Below) = rules[Below].node
         /\ Beyond(Lines, rules[Below].node) \/ rules[Below].node = rules[Chain[Height - 2]].node
<1>1. Height > 1 /\ rules[Below].name = "val"
  BY DEF Under, Above, Below
<1>2. Waits(arena, rules, Chain, Height - 1) /\ Pushed(arena, rules, Chain, Height - 1)
      /\ Chain[Height - 1] = Below /\ Chain[(Height - 1) + 1] = cur
  BY <1>1, BelowWaits
<1>3. Lines = Marks(arena, rules, Chain, Height - 1) /\ Below \in DOMAIN rules
  BY <1>1, LinesBelow
<1>4. /\ rules[Below].node.k = "node" \/ Beyond(Lines, rules[cur].node)
      /\ rules[cur].name = "expr" /\ rules[cur].parent = Below /\ rules[Below].child = cur
  BY <1>1, <1>2, <1>3 DEF Pushed
<1>5. rules[Below].attach = Undefined
  <2>1. rules[Below] \in Rules(Value, Len(rules))
    BY <1>3, ChainIs
  <2>2. QED
    BY <1>1, <2>1, Fields
<1>6. Linked(rules, Below) = rules[Below].node
  <2>1. Below # 0
    BY <1>3, ChainIs
  <2>2. QED
    BY <1>5, <2>1 DEF Linked, Undefined
<1>7. ValHolds(arena, rules, Chain, Height - 1)
  BY <1>1, <1>2 DEF Waits, Awaits
<1>8. (Height - 1) - 1 = Height - 2
  BY ChainIs
<1>9. Beyond(Lines, rules[Below].node) \/ rules[Below].node = rules[Chain[Height - 2]].node
  BY <1>2, <1>3, <1>7, <1>8 DEF ValHolds
<1>10. QED
  BY <1>1, <1>4, <1>6, <1>9

LEMMA ExprOpenChosen ==
  /\ ExprOpenAlt = "paren" => t0 \in ParenOpen
  /\ ExprOpenAlt = "prefix" => rules[cur].n.prefix # 0
  /\ ExprOpenAlt \in {"infix", "suffix"} =>
       t0 \notin ParenOpen /\ ~(t0 \in DOMAIN Prefix /\ rules[cur].n.prefix # 0)
<1> DEFINE alts == << << t0 \in ParenOpen, "paren" >>,
                      << t0 \in DOMAIN Prefix /\ rules[cur].n.prefix # 0, "prefix" >>,
                      << t0 \in DOMAIN Infix, "infix" >>,
                      << t0 \in DOMAIN Suffix, "suffix" >> >>
           paren  == t0 \in ParenOpen
           prefix == t0 \in DOMAIN Prefix /\ rules[cur].n.prefix # 0
<1>1. ExprOpenAlt = FirstMatch(alts) /\ DOMAIN alts = 1..4
  BY DEF ExprOpenAlt
<1>2. /\ alts[1][2] = "paren" /\ alts[2][2] = "prefix" /\ alts[3][2] = "infix"
      /\ alts[4][2] = "suffix"
  OBVIOUS
<1>3. (alts[1][1] <=> paren) /\ (alts[2][1] <=> prefix)
  BY Zenon
<1> HIDE DEF alts, paren
<1>4. prefix => rules[cur].n.prefix # 0
  OBVIOUS
<1> HIDE DEF prefix
<1>5. SUFFICES ASSUME FirstMatch(alts) # "none"
               PROVE  /\ FirstMatch(alts) = "paren" => paren
                      /\ FirstMatch(alts) = "prefix" => prefix
                      /\ FirstMatch(alts) \in {"infix", "suffix"} => ~paren /\ ~prefix
  BY <1>1, <1>4 DEF paren, prefix
<1>6. PICK i \in 1..4 : /\ alts[i][1] /\ FirstMatch(alts) = alts[i][2]
                        /\ \A j \in 1..(i - 1) : ~alts[j][1]
  BY <1>1, <1>5, FirstMatchHolds
<1>7. i \in {1, 2, 3, 4}
  BY <1>6
<1>8. i \in {3, 4} => ~paren /\ ~prefix
  <2>1. i \in {3, 4} => 1 \in 1..(i - 1) /\ 2 \in 1..(i - 1)
    OBVIOUS
  <2>2. QED
    BY <1>3, <1>6, <2>1
<1>9. QED
  BY <1>2, <1>3, <1>6, <1>7, <1>8

\* An expr about to open.
LEMMA ExprOpens ==
  ASSUME Running, Passing("expr", "open")
  PROVE  /\ TopExprOpen(arena, rules, Chain, Height, t0) /\ Chain[Height] = cur
         /\ rules[cur].name = "expr" /\ rules[cur].state = "open" /\ Formed(rules[cur])
         /\ pratt = NoCall /\ ~rules[cur].preval /\ rules[cur].child = 0
         /\ ~Under("expr") /\ rules[cur].n.prefix \in Nat /\ rules[cur].n.expr \in Nat
         /\ {rules[cur].parent, rules[cur].prev} \subseteq 0..Len(rules)
<1>1. /\ rules[cur].name = "expr" /\ rules[cur].state = "open" /\ Formed(rules[cur])
      /\ pratt = NoCall /\ ~rules[cur].preval /\ rules[cur].child = 0
      /\ rules[cur].n.prefix \in Nat /\ rules[cur].n.expr \in Nat
      /\ rules[cur] \in Rules(Value, Len(rules))
  BY PassIs
<1>2. TopExprOpen(arena, rules, Chain, Height, t0) /\ Chain[Height] = cur
  BY <1>1, ChainIs DEF TopHolds
<1>3. ~Under("expr")
  BY <1>1, ExprBelow
<1>4. {rules[cur].parent, rules[cur].prev} \subseteq 0..Len(rules)
  BY <1>1, Fields
<1>5. QED
  BY <1>1, <1>2, <1>3, <1>4

LEMMA ExprOpenParenChain ==
  ASSUME Running, ExprOpenParen
  PROVE  ChainInv'
<1>1. /\ Passing("expr", "open") /\ ExprOpenAlt = "paren" /\ Push(rules[cur], "paren", rules)
      /\ arena' = arena /\ pratt' = pratt
  BY DEF ExprOpenParen
<1>2. /\ TopExprOpen(arena, rules, Chain, Height, t0) /\ rules[cur].name = "expr"
      /\ pratt = NoCall
  BY <1>1, ExprOpens
<1>3. t0 \in ParenOpen /\ t0 \notin DOMAIN Infix \cup DOMAIN Suffix
  BY <1>1, ExprOpenChosen, BracketTokens
<1>4. Under("val")
  BY <1>2, <1>3 DEF TopExprOpen, Under
<1>5. QED
  BY <1>1, <1>2, <1>4, PushParen

\* A prefix opens below the val that holds its expression, an infix or a suffix
\* in place of its first term.
LEMMA ExprOpenPlace ==
  ASSUME Running, Passing("expr", "open"), ExprOpenAlt \in DOMAIN Opening
  PROVE  LET E == rules[cur]
         IN  /\ ExprOpenAlt = "prefix" => Under("val") /\ E.n.prefix # 0
             /\ ExprOpenAlt # "prefix" =>
                  /\ ~Under("val") /\ E.parent < cur /\ Beyond(Lines, Linked(rules, E.parent))
                  /\ E.prev # 0 /\ E.prev < cur /\ Beyond(Lines, Linked(rules, E.prev))
                  /\ rules[E.prev].name = "val" \/ rules[E.prev].attach.k = "node"
<1>1. TopExprOpen(arena, rules, Chain, Height, t0) /\ Chain[Height] = cur
  BY ExprOpens
<1>2. ExprOpenAlt \in {"prefix", "infix", "suffix"}
  BY DEF Opening
<1>3. CASE ExprOpenAlt = "prefix"
  <2>1. rules[cur].n.prefix # 0
    BY <1>3, ExprOpenChosen
  <2>2. QED
    BY <1>1, <1>3, <2>1 DEF TopExprOpen, Under
<1>4. CASE ExprOpenAlt # "prefix"
  <2>1. t0 \notin ParenOpen /\ ~(t0 \in DOMAIN Prefix /\ rules[cur].n.prefix # 0)
    BY <1>2, <1>4, ExprOpenChosen
  <2>2. QED
    BY <1>1, <1>4, <2>1 DEF TopExprOpen, Apart, Under, Lines
<1>5. QED
  BY <1>3, <1>4

\* The counters an operator adds.
LEMMA CountedIs ==
  ASSUME NEW E, Formed(E), NEW kind
  PROVE  LET C == Counted(E, kind)
         IN  /\ Formed(C) /\ C.name = E.name /\ C.state = E.state /\ C.node = E.node
             /\ C.parent = E.parent /\ C.prev = E.prev /\ C.child = E.child
             /\ C.attach = E.attach /\ C.preval = E.preval /\ C.n.expr = E.n.expr + 1
             /\ C.n.prefix = IF kind = "prefix" THEN E.n.prefix ELSE 0
BY DEF Formed, Counted

\* Where an operator looks for the expression it goes into.
LEMMA TargetIs ==
  ASSUME Running, Passing("expr", "open"), ExprOpenAlt \in DOMAIN Opening,
         EmbedTarget(rules[cur], ExprOpenAlt) # Undefined
  PROVE  LET E == rules[cur]
             target == EmbedTarget(E, ExprOpenAlt)
         IN  /\ ExprOpenAlt = "prefix" => target = rules[Below].node
             /\ ExprOpenAlt # "prefix" => Beyond(Lines, target)
<1> DEFINE E == rules[cur]
           target == EmbedTarget(E, ExprOpenAlt)
<1>1. /\ ExprOpenAlt = "prefix" => Under("val") /\ E.n.prefix # 0
      /\ ExprOpenAlt # "prefix" =>
           Beyond(Lines, Linked(rules, E.parent)) /\ Beyond(Lines, Linked(rules, E.prev))
  BY ExprOpenPlace
<1>2. LinkedNode(E.parent) = Linked(rules, E.parent) /\ LinkedNode(E.prev) = Linked(rules, E.prev)
  <2>1. {E.parent, E.prev} \subseteq 0..Len(rules)
    BY ExprOpens
  <2>2. QED
    BY <2>1, LinkedIs DEF Running
<1>3. ASSUME ExprOpenAlt = "prefix" PROVE target = rules[Below].node
  <2>1. target = LinkedNode(E.parent)
    BY <1>3 DEF EmbedTarget, FoldTarget
  <2>2. QED
    BY <1>1, <1>2, <1>3, <2>1, SeedBelow
<1>4. ASSUME ExprOpenAlt # "prefix" PROVE Beyond(Lines, target)
  <2>1. ExprOpenAlt \in {"infix", "suffix"}
    BY <1>4 DEF Opening
  <2>2. target = LinkedNode(E.parent) \/ target = LinkedNode(E.prev)
    <3>1. CASE ExprOpenAlt = "infix"
      BY <3>1 DEF EmbedTarget
    <3>2. CASE ExprOpenAlt = "suffix"
      BY <3>2 DEF EmbedTarget
    <3>3. QED
      BY <2>1, <3>1, <3>2
  <2>3. QED
    BY <1>1, <1>2, <1>4, <2>2
<1>5. QED
  BY <1>3, <1>4

\* An operator that goes into an expression: in place, with a call of prattify.
LEMMA ExprOpenEmbedChain ==
  ASSUME Running, ExprOpenEmbed
  PROVE  ChainInv'
<1> DEFINE kind   == ExprOpenAlt
           E      == rules[cur]
           target == EmbedTarget(E, kind)
           R      == IF kind = "infix" /\ UnaryFirst(E)
                     THEN [Counted(E, kind) EXCEPT !.parent = E.prev] ELSE Counted(E, kind)
<1>1. /\ Passing("expr", "open") /\ kind \in DOMAIN Opening /\ target # Undefined
      /\ pratt' = [kind |-> kind, op |-> OpUsed(kind), token |-> at,
                   root |-> target, expr |-> target]
      /\ rules' = [rules EXCEPT ![cur] = R]
      /\ arena' = arena /\ stack' = stack /\ cur' = cur
  BY DEF ExprOpenEmbed
<1>2. /\ E.name = "expr" /\ E.state = "open" /\ Formed(E) /\ ~E.preval /\ E.child = 0
      /\ ~Under("expr") /\ Chain[Height] = cur
      /\ {E.parent, E.prev} \subseteq 0..Len(rules) /\ E.n.expr \in Nat
  BY <1>1, ExprOpens, PassIs
<1>3. /\ R.name = "expr" /\ R.state = "open" /\ R.node = E.node /\ ~R.preval /\ R.child = 0
      /\ R.n.prefix = IF kind = "prefix" THEN E.n.prefix ELSE 0
      /\ R.n.expr # 0
      /\ R.parent = E.parent \/ (kind = "infix" /\ R.parent = E.prev)
  <2>1. /\ Formed(Counted(E, kind)) /\ Counted(E, kind).name = "expr"
        /\ Counted(E, kind).state = "open" /\ Counted(E, kind).node = E.node
        /\ ~Counted(E, kind).preval /\ Counted(E, kind).child = 0
        /\ Counted(E, kind).parent = E.parent
        /\ Counted(E, kind).n.prefix = IF kind = "prefix" THEN E.n.prefix ELSE 0
        /\ Counted(E, kind).n.expr # 0
    BY <1>2, CountedIs
  <2>2. CASE kind = "infix" /\ UnaryFirst(E)
    BY <2>1, <2>2 DEF Formed
  <2>3. CASE ~(kind = "infix" /\ UnaryFirst(E))
    BY <2>1, <2>3
  <2>4. QED
    BY <2>2, <2>3
<1> HIDE DEF R
<1>4. /\ kind = "prefix" => Under("val") /\ E.n.prefix # 0 /\ target = rules[Below].node
      /\ kind # "prefix" =>
           /\ ~Under("val") /\ E.parent < cur /\ Beyond(Lines, Linked(rules, E.parent))
           /\ E.prev < cur /\ Beyond(Lines, Linked(rules, E.prev))
           /\ Beyond(Lines, target)
  BY <1>1, ExprOpenPlace, TargetIs
<1> HIDE DEF target
<1>5. R.parent \in DOMAIN rules \cup {0} /\ cur \in DOMAIN rules /\ DOMAIN rules = 1..Len(rules)
      /\ Len(rules) \in Nat /\ IsSeq(rules)
  BY <1>2, <1>3, ChainIs
<1>6. TopKept(R, rules')
  <2>1. Under("val") => kind = "prefix"
    BY <1>4
  <2>2. Under("val") => R.parent = E.parent
    BY <1>3, <2>1
  <2>3. Under("val") => rules'[Below] = rules[Below]
    <3>1. Under("val") => Height > 1
      BY DEF Under, Above
    <3>2. Under("val") => Below \in DOMAIN rules /\ Below # cur
      BY <3>1, LinesBelow
    <3>3. QED
      BY <1>1, <1>5, <3>2, SeqExcept
  <2>4. QED
    BY <1>2, <1>3, <2>2, <2>3, SeedBelow DEF TopKept
<1>7. Rest(rules) /\ Stands(arena') /\ Acyclic(arena')
  BY <1>1, RestSame, StandsStill DEF Running, ChainInv
<1>8. /\ rules'[cur] = R
      /\ \A r \in DOMAIN rules \ {cur} : rules'[r] = rules[r]
      /\ Marks(arena', rules', Chain', Height) = Lines
      /\ \A nm : Above(rules', Chain', Height, nm) <=> Under(nm)
      /\ Height > 1 => Chain'[Height - 1] = Below
      /\ cur' # 0 /\ Chain'[Height] = cur /\ Len(Chain') = Height
      /\ Frames(arena', rules', Chain')
  BY <1>1, <1>5, <1>6, <1>7, StayOn
<1>9. pratt'.kind = kind /\ pratt'.root = target /\ pratt'.expr = target
  BY <1>1
<1>10. pratt' # NoCall
  BY <1>1, <1>9 DEF NoCall, Opening
<1>14. pratt'.root.k = "node"
  <2>1. CallOK'
    BY Embedded DEF Running, TypeInv
  <2>2. QED
    BY <1>9, <1>10, <2>1 DEF CallOK, Live
<1>11. TopExprCall(arena', rules', Chain', Height, pratt')
  <2>1. CASE kind = "prefix"
    <3>1. Under("val") /\ Height > 1
      BY <1>4, <2>1 DEF Under, Above
    <3>2. Below \in DOMAIN rules /\ Below # cur
      BY <3>1, LinesBelow
    <3>3. rules'[Chain'[Height - 1]] = rules[Below]
      BY <1>8, <3>1, <3>2
    <3>4. QED
      BY <1>3, <1>4, <1>8, <1>9, <1>14, <2>1, <3>1, <3>3 DEF TopExprCall
  <2>2. CASE kind # "prefix"
    <3>1. R.parent < cur /\ Beyond(Lines, Linked(rules, R.parent))
      BY <1>3, <1>4, <2>2
    <3>2. Linked(rules', R.parent) = Linked(rules, R.parent)
      <4>1. R.parent = 0 \/ R.parent \in DOMAIN rules \ {cur}
        BY <1>5, <3>1
      <4>2. QED
        BY <1>8, <4>1 DEF Linked
    <3>3. Apart(arena', rules', Chain', Height)
      BY <1>4, <1>8, <2>2, <3>1, <3>2 DEF Apart
    <3>4. QED
      BY <1>3, <1>4, <1>8, <1>9, <1>14, <2>2, <3>3 DEF TopExprCall
  <2>3. QED
    BY <2>1, <2>2
<1>12. TopHolds(arena', rules', Chain', t0', pratt')
  BY <1>3, <1>8, <1>10, <1>11 DEF TopHolds
<1>13. QED
  <2>1. rules'[cur'].state = "open"
    BY <1>1, <1>3, <1>8
  <2>2. QED
    BY <1>7, <1>8, <1>12, <2>1, ChainNext

(***************************************************************************)
(* An operator in its place: it reads its operand, or has none to read.    *)
(***************************************************************************)
LEMMA Published ==
  ASSUME Running, rules[cur].name = "expr", NEW R, Formed(R), R.name = "expr", R.child = 0,
         R.n.expr # 0, NEW kind, NEW attach, attach.k = "node", Beyond(Lines, attach),
         kind # "suffix" => Firm(arena', attach),
         NEW others, IsSeq(others), DOMAIN others = DOMAIN rules, Rest(others),
         Publish(R, kind, attach, others), pratt' = NoCall, Stands(arena'), Acyclic(arena'),
         \/ /\ kind = "prefix" /\ Under("val") /\ R.n.prefix # 0 /\ others[Below].node.k = "node"
            /\ R.parent = rules[cur].parent
         \/ /\ kind # "prefix" /\ ~Under("val") /\ R.n.prefix = 0 /\ R.parent < cur
            /\ R.parent \in DOMAIN rules \cup {0} /\ Beyond(Lines, Linked(others, R.parent))
  PROVE  ChainInv'
<1> DEFINE P == [R EXCEPT !.node = attach, !.attach = attach]
           S == [P EXCEPT !.state = "close"]
<1>1. IF kind = "suffix" THEN Stay(P, others) ELSE Push(P, "val", others)
  BY DEF Publish
<1>2. /\ Formed(P) /\ P.name = "expr" /\ P.node = attach /\ P.attach = attach /\ P.n = R.n
      /\ P.parent = R.parent /\ P.child = R.child
  BY DEF Formed
<1> HIDE DEF P
<1>3. CASE kind # "suffix"
  <2>1. Push(P, "val", others) /\ Firm(arena', P.node) /\ Beyond(Lines, P.node) /\ P.n.expr # 0
        /\ P.node = P.attach
    BY <1>1, <1>2, <1>3
  <2>2. \/ /\ Under("val") /\ P.n.prefix # 0 /\ others[Below].node.k = "node"
           /\ P.parent = rules[cur].parent
        \/ /\ ~Under("val") /\ P.parent < cur /\ P.parent \in DOMAIN rules \cup {0}
           /\ Beyond(Lines, Linked(others, P.parent))
    BY <1>2
  <2>3. QED
    BY <1>2, <2>1, <2>2, PushVal
<1>4. CASE kind = "suffix"
  <2>1. rules' = [others EXCEPT ![cur] = S] /\ cur' = cur /\ stack' = stack
    BY <1>1, <1>4 DEF Stay
  <2>2. /\ S.name = "expr" /\ S.state = "close" /\ S.node = attach /\ S.attach = attach
        /\ S.n = R.n /\ S.parent = R.parent /\ S.child = 0
    BY <1>2 DEF Formed
  <2> HIDE DEF S
  <2>3. /\ ~Under("val") /\ ~Under("expr") /\ R.n.prefix = 0 /\ R.parent < cur
        /\ R.parent \in DOMAIN rules \cup {0} /\ Beyond(Lines, Linked(others, R.parent))
    BY <1>4, ExprBelow
  <2>4. TopKept(S, rules')
    BY <2>2, <2>3 DEF TopKept
  <2>5. /\ rules'[cur] = S
        /\ \A r \in DOMAIN rules \ {cur} : rules'[r] = others[r]
        /\ Marks(arena', rules', Chain', Height) = Lines
        /\ \A nm : Above(rules', Chain', Height, nm) <=> Under(nm)
        /\ cur' # 0 /\ Chain'[Height] = cur /\ Len(Chain') = Height
        /\ Frames(arena', rules', Chain')
    BY <2>1, <2>4, StayOn
  <2>6. Linked(rules', R.parent) = Linked(others, R.parent)
    <3>1. R.parent = 0 \/ R.parent \in DOMAIN rules \ {cur}
      BY <2>3, ChainIs
    <3>2. QED
      BY <2>5, <3>1 DEF Linked
  <2>7. Apart(arena', rules', Chain', Height)
    BY <2>2, <2>3, <2>5, <2>6 DEF Apart
  <2>8. TopExprClose(arena', rules', Chain', Height, t0')
    BY <2>2, <2>3, <2>5, <2>7 DEF TopExprClose
  <2>9. TopHolds(arena', rules', Chain', t0', pratt')
    BY <2>2, <2>5, <2>8 DEF TopHolds
  <2>10. QED
    BY <2>5, <2>9, ChainNext
<1>5. QED
  BY <1>3, <1>4

\* A new node is beyond every line.
LEMMA NewBeyond ==
  ASSUME Running
  PROVE  Beyond(Lines, Handle(Len(arena.nodes) + 1))
<1>1. Len(arena.nodes) \in Nat
  BY ArenaClosed, Nodes DEF Running, Sound
<1>2. \A N \in Lines : N <= Len(arena.nodes) /\ N \in Nat
  BY LinesAre
<1>3. QED
  BY <1>1, <1>2 DEF Beyond, Handle

\* A node of its own, in a pass.
LEMMA NewStands ==
  ASSUME Running, NEW op, NEW token, NEW terms, arena' = NewNode(arena, op, token, terms),
         \A j \in DOMAIN terms : terms[j].k # "node"
  PROVE  /\ Newest(arena') = Handle(Len(arena.nodes) + 1) /\ Live(arena', Newest(arena'))
         /\ Acyclic(arena') /\ Stands(arena') /\ Beyond(Lines, Newest(arena'))
         /\ op.kind = "prefix" \/ (op.kind = "infix" /\ 1 \in DOMAIN terms)
              => Firm(arena', Newest(arena'))
<1>1. Sound(arena) /\ Closed(arena) /\ Acyclic(arena)
  BY ArenaClosed DEF Running, ChainInv
<1>2. Known(arena, terms) /\ Allocates(arena, arena', op, token, terms)
  BY <1>1, NewNodeAllocates DEF Known
<1>3. /\ Newest(arena') = Handle(Len(arena.nodes) + 1) /\ Live(arena', Newest(arena'))
      /\ Acyclic(arena')
      /\ \A e : /\ Firm(arena, e)
                /\ \A j \in DOMAIN terms : Beyond({Mark(arena, e)}, terms[j])
                => Steady(arena, arena', e)
      /\ op.kind = "prefix" \/ (op.kind = "infix" /\ 1 \in DOMAIN terms)
           => Firm(arena', Newest(arena'))
  BY <1>1, <1>2, NewTree
<1>4. \A e : Firm(arena, e) => Steady(arena, arena', e)
  BY <1>3 DEF Beyond
<1>5. Stands(arena')
  BY <1>4, LinesAre DEF Stands
<1>6. QED
  BY <1>3, <1>5, NewBeyond

\* A rule whose node has become another.
LEMMA NodeReset ==
  ASSUME Running, NEW prior \in DOMAIN rules, prior < cur, prior # cur,
         rules[prior].name = "val", NEW node, node.k = "node", Beyond(Lines, node)
  PROVE  LET others == [rules EXCEPT ![prior].node = node]
         IN  /\ IsSeq(others) /\ DOMAIN others = DOMAIN rules /\ Rest(others)
             /\ others[prior].node = node /\ others[prior].attach = Undefined
<1> DEFINE Q == [rules[prior] EXCEPT !.node = node]
           others == [rules EXCEPT ![prior].node = node]
<1>1. /\ Formed(rules[prior]) /\ IsSeq(rules) /\ rules[prior].attach = Undefined
      /\ Height \in Nat \ {0} /\ (Height - 1) + 1 = Height
  <2>1. rules[prior] \in Rules(Value, Len(rules)) /\ Formed(rules[prior]) /\ IsSeq(rules)
        /\ Height \in Nat \ {0} /\ (Height - 1) + 1 = Height
    BY ChainIs
  <2>2. QED
    BY <2>1, Fields
<1>2. others = [rules EXCEPT ![prior] = Q]
  OBVIOUS
<1>3. Alike(Q, rules[prior]) /\ Q.node = node
  BY <1>1 DEF Formed, Alike
<1> HIDE DEF Q, others
<1>4. /\ IsSeq(others) /\ DOMAIN others = DOMAIN rules
      /\ \A r \in DOMAIN rules : others[r] = IF r = prior THEN Q ELSE rules[r]
  BY <1>1, <1>2, SeqExcept
<1>5. Refilled(arena, rules, others, Chain, Height - 1, prior)
  <2>1. others[prior].node = node /\ node # Undefined
    BY <1>3, <1>4 DEF Undefined
  <2>2. QED
    BY <1>1, <2>1 DEF Refilled, Lines
<1>6. Rest(others)
  <2> SUFFICES ASSUME NEW r \in DOMAIN rules \ {cur}
               PROVE  /\ Alike(others[r], rules[r])
                      /\ \/ others[r].node = rules[r].node
                         \/ r < cur /\ Refilled(arena, rules, others, Chain, Height - 1, r)
    BY DEF Rest
  <2>1. CASE r = prior
    BY <1>3, <1>4, <1>5, <2>1
  <2>2. CASE r # prior
    BY <1>4, <2>2 DEF Alike
  <2>3. QED
    BY <2>1, <2>2
<1>7. others[prior].node = node /\ others[prior].attach = Undefined
  BY <1>1, <1>3, <1>4 DEF Alike
<1>8. QED
  BY <1>4, <1>6, <1>7 DEF others

\* The rule whose value starts an expression: nothing is wrapped, a node there
\* would have been the place to go into.
LEMMA PriorIs ==
  ASSUME Running, Passing("expr", "open"), ExprOpenAlt \in DOMAIN Opening,
         EmbedTarget(rules[cur], ExprOpenAlt) = Undefined
  PROVE  LET E     == rules[cur]
             prior == IF ExprOpenAlt = "prefix" THEN E.parent ELSE E.prev
         IN  /\ prior \in DOMAIN rules /\ prior # 0 /\ prior < cur /\ prior # cur
             /\ rules[prior].name = "val"
             /\ ExprOpenAlt = "prefix" => Under("val") /\ E.n.prefix # 0 /\ prior = Below
             /\ ExprOpenAlt # "prefix" => ~Under("val") /\ NodeOf(prior).k # "node"
<1> DEFINE E     == rules[cur]
           prior == IF ExprOpenAlt = "prefix" THEN E.parent ELSE E.prev
<1>1. /\ ExprOpenAlt = "prefix" => Under("val") /\ E.n.prefix # 0
      /\ ExprOpenAlt # "prefix" =>
           /\ ~Under("val") /\ E.prev # 0 /\ E.prev < cur
           /\ rules[E.prev].name = "val" \/ rules[E.prev].attach.k = "node"
  BY ExprOpenPlace
<1>2. CASE ExprOpenAlt = "prefix"
  <2>1. Height > 1
    BY <1>1, <1>2 DEF Under, Above
  <2>2. Below \in DOMAIN rules /\ Below < cur /\ Below # cur
    BY <2>1, LinesBelow
  <2>3. prior = Below /\ rules[Below].name = "val"
    BY <1>1, <1>2, SeedBelow
  <2>4. Below # 0
    BY <2>2, ChainIs
  <2>5. QED
    BY <1>1, <1>2, <2>2, <2>3, <2>4
<1>3. CASE ExprOpenAlt # "prefix"
  <2>1. ExprOpenAlt \in {"infix", "suffix"}
    BY <1>3 DEF Opening
  <2>2. /\ prior \in 0..Len(rules) /\ DOMAIN rules = 1..Len(rules) /\ Len(rules) \in Nat
        /\ cur \in DOMAIN rules /\ {E.parent, E.prev} \subseteq 0..Len(rules)
    BY <1>3, ExprOpens, ChainIs
  <2>3. prior \in DOMAIN rules /\ prior # 0 /\ prior < cur /\ prior # cur
    BY <1>1, <1>3, <2>2
  <2>4. NoTernaries /\ TypeInv
    BY DEF Running
  <2>5. ~IsOp(arena, LinkedNode(prior))
    <3>1. ~IsOp(arena, Undefined)
      BY DEF IsOp, Live, Undefined
    <3>2. CASE ExprOpenAlt = "infix"
      <4>1. ~SecondOperator(E) /\ ~UnaryFirst(E)
        BY <3>1, <3>2 DEF EmbedTarget, SecondOperator, UnaryFirst
      <4>2. QED
        BY <1>3, <4>1 DEF UnaryFirst
    <3>3. CASE ExprOpenAlt = "suffix"
      BY <1>3, <3>1, <3>3 DEF EmbedTarget
    <3>4. QED
      BY <2>1, <3>2, <3>3
  <2>6. Linked(rules, prior).k # "node"
    BY <2>2, <2>4, <2>5, LinkedIs, NodeLives
  <2>7. rules[prior].name = "val" /\ NodeOf(prior).k # "node"
    BY <1>1, <1>3, <2>3, <2>6 DEF Linked, NodeOf
  <2>8. QED
    BY <1>1, <1>3, <2>3, <2>7
<1>4. QED
  BY <1>2, <1>3

\* An operator that starts an expression of its own.
LEMMA ExprOpenPriorChain ==
  ASSUME Running, ExprOpenPrior
  PROVE  ChainInv'
<1> DEFINE kind  == ExprOpenAlt
           E     == rules[cur]
           prior == IF kind = "prefix" THEN E.parent ELSE E.prev
           value == NodeOf(prior)
           wraps == IsOp(arena, value) /\ kind # "prefix"
           R     == IF prior = 0 THEN Counted(E, kind)
                    ELSE [Counted(E, kind) EXCEPT !.parent = prior]
           terms == IF kind = "prefix" THEN << >> ELSE <<value>>
           node  == IF wraps THEN value ELSE Newest(arena')
<1>1. /\ Passing("expr", "open") /\ kind \in DOMAIN Opening
      /\ EmbedTarget(E, kind) = Undefined
      /\ arena' = IF wraps THEN Wrap(arena, value, OpUsed(kind), at)
                  ELSE NewNode(arena, OpUsed(kind), at, terms)
      /\ Publish(R, kind, node, PriorLinked(prior, node, wraps)) /\ pratt' = pratt
  BY DEF ExprOpenPrior
<1>2. /\ E.name = "expr" /\ Formed(E) /\ pratt = NoCall /\ E.child = 0
      /\ E.n.prefix \in Nat /\ E.n.expr \in Nat
  BY <1>1, ExprOpens
<1>3. /\ prior \in DOMAIN rules /\ prior # 0 /\ prior < cur /\ prior # cur
      /\ rules[prior].name = "val"
      /\ kind = "prefix" => Under("val") /\ E.n.prefix # 0 /\ prior = Below
      /\ kind # "prefix" => ~Under("val") /\ value.k # "node"
  BY <1>1, PriorIs
<1>4. ~wraps
  BY <1>3 DEF IsOp, Live
<1>5. OpUsed(kind).kind = kind
  BY <1>1, OpensOnOperator
<1>6. /\ Formed(R) /\ R.name = "expr" /\ R.child = 0 /\ R.n.expr = E.n.expr + 1 /\ R.parent = prior
      /\ R.n.prefix = IF kind = "prefix" THEN E.n.prefix ELSE 0
  <2>1. /\ Formed(Counted(E, kind)) /\ Counted(E, kind).name = "expr"
        /\ Counted(E, kind).child = 0 /\ Counted(E, kind).n.expr = E.n.expr + 1
        /\ Counted(E, kind).n.prefix = IF kind = "prefix" THEN E.n.prefix ELSE 0
    BY <1>2, CountedIs
  <2>2. R = [Counted(E, kind) EXCEPT !.parent = prior]
    BY <1>3
  <2>3. QED
    BY <2>1, <2>2 DEF Formed
<1> HIDE DEF R
<1>7. \A j \in DOMAIN terms : terms[j].k # "node"
  BY <1>3
<1>8. kind = "infix" => 1 \in DOMAIN terms
  OBVIOUS
<1>9. arena' = NewNode(arena, OpUsed(kind), at, terms) /\ node = Newest(arena')
  BY <1>1, <1>4
<1> HIDE DEF terms, value, wraps
<1>10. /\ node = Handle(Len(arena.nodes) + 1) /\ Acyclic(arena') /\ Stands(arena')
       /\ Beyond(Lines, node)
       /\ OpUsed(kind).kind = "prefix" \/ (OpUsed(kind).kind = "infix" /\ 1 \in DOMAIN terms)
            => Firm(arena', node)
  <2> HIDE DEF node, kind
  <2>1. QED
    BY <1>7, <1>9, NewStands
<1>11. kind # "suffix" => Firm(arena', node)
  <2>1. kind \in {"prefix", "infix", "suffix"}
    BY <1>1 DEF Opening
  <2>2. QED
    BY <1>5, <1>8, <1>10, <2>1
<1>12. node.k = "node"
  BY <1>10 DEF Handle
<1> HIDE DEF node
<1> DEFINE others == [rules EXCEPT ![prior].node = node]
<1>13. PriorLinked(prior, node, wraps) = others
  BY <1>3, <1>4 DEF PriorLinked
<1>14. /\ IsSeq(others) /\ DOMAIN others = DOMAIN rules /\ Rest(others)
       /\ others[prior].node = node /\ others[prior].attach = Undefined
  BY <1>3, <1>10, <1>12, NodeReset
<1>15. Publish(R, kind, node, others)
  BY <1>1, <1>13
<1>16. \/ /\ kind = "prefix" /\ Under("val") /\ R.n.prefix # 0 /\ others[Below].node.k = "node"
          /\ R.parent = rules[cur].parent
       \/ /\ kind # "prefix" /\ ~Under("val") /\ R.n.prefix = 0 /\ R.parent < cur
          /\ R.parent \in DOMAIN rules \cup {0} /\ Beyond(Lines, Linked(others, R.parent))
  <2> HIDE DEF others
  <2>1. CASE kind = "prefix"
    BY <1>3, <1>6, <1>12, <1>14, <2>1
  <2>2. CASE kind # "prefix"
    <3>1. Linked(others, prior) = node
      BY <1>3, <1>14 DEF Linked, Undefined
    <3>2. QED
      BY <1>3, <1>6, <1>10, <2>2, <3>1
  <2>3. QED
    BY <2>1, <2>2
<1>17. R.n.expr # 0
  BY <1>2, <1>6
<1>18. rules[cur].name = "expr" /\ pratt' = NoCall
  BY <1>1, <1>2
<1> HIDE DEF others, prior, kind, E
<1>19. QED
  BY <1>6, <1>10, <1>11, <1>12, <1>14, <1>15, <1>16, <1>17, <1>18, Published

(***************************************************************************)
(* prattify.                                                               *)
(***************************************************************************)
LEMMA InfixTerms == \A op \in BracketOps \cup OperandOps : op.kind = "infix" => op.terms = 2
BY DEF BracketOps, OperandOps, TernaryOp, ParenOp, PrefixOp, InfixOp, SuffixOp, Powered

LEMMA CallIs ==
  ASSUME Running, Pratting
  PROVE  LET E == rules[cur]
         IN  /\ E.name = "expr" /\ E.state = "open" /\ Formed(E) /\ E.child = 0 /\ ~E.preval
             /\ E.n.expr # 0 /\ E.parent \in DOMAIN rules \cup {0}
             /\ ~Under("expr") /\ Chain[Height] = cur
             /\ \/ /\ Under("val") /\ E.n.prefix # 0 /\ pratt.kind = "prefix"
                   /\ pratt.expr = pratt.root /\ pratt.root = rules[Below].node
                \/ /\ pratt.kind # "prefix" /\ ~Under("val") /\ E.n.prefix = 0
                   /\ E.parent < cur /\ Beyond(Lines, Linked(rules, E.parent))
                   /\ Beyond(Lines, pratt.root) /\ Beyond(Lines, pratt.expr)
             /\ pratt.root.k = "node" /\ Live(arena, pratt.expr) /\ pratt.expr.k = "node"
             /\ pratt.op.kind = pratt.kind /\ pratt.kind \in DOMAIN Opening
             /\ arena.nodes[pratt.expr.id].terms \in Seq(Value)
             /\ LastPos \in Nat \ {0}
             /\ arena.nodes[pratt.expr.id].op.kind = "infix" => LastPos # 1
             /\ Sound(arena) /\ Closed(arena) /\ Acyclic(arena)
<1> DEFINE E == rules[cur]
<1>1. pratt # NoCall /\ E.state = "open" /\ Acyclic(arena) /\ E.name = "expr"
  BY DEF Running, Pratting, ChainInv, TypeInv, Typed, CallTyped
<1>2. /\ Formed(E) /\ Chain[Height] = cur /\ Len(Chain) = Height /\ cur \in DOMAIN rules
      /\ TopHolds(arena, rules, Chain, t0, pratt) /\ Sorted(rules, Chain)
  BY ChainIs
<1>3. TopExprCall(arena, rules, Chain, Height, pratt) /\ E.child = 0 /\ ~E.preval
  BY <1>1, <1>2 DEF TopHolds
<1>4. ~Under("expr")
  BY <1>1, ExprBelow
<1>5. E.parent \in DOMAIN rules \cup {0}
  BY <1>2 DEF Sorted
<1>6. /\ E.n.expr # 0 /\ pratt.root.k = "node"
      /\ \/ /\ Under("val") /\ E.n.prefix # 0 /\ pratt.kind = "prefix"
            /\ pratt.expr = pratt.root /\ pratt.root = rules[Below].node
         \/ /\ pratt.kind # "prefix" /\ ~Under("val") /\ E.n.prefix = 0
            /\ E.parent < cur /\ Beyond(Lines, Linked(rules, E.parent))
            /\ Beyond(Lines, pratt.root) /\ Beyond(Lines, pratt.expr)
  BY <1>2, <1>3 DEF TopExprCall, Apart, Under, Below, Lines
<1>7. Live(arena, pratt.expr) /\ pratt.op.kind = pratt.kind /\ pratt.kind \in DOMAIN Opening
  BY <1>1 DEF Running, TypeInv, PrattInv, CallOK
<1>8. Sound(arena) /\ Closed(arena)
  BY ArenaClosed DEF Running
<1>9. /\ arena.nodes[pratt.expr.id].terms \in Seq(Value)
      /\ arena.nodes[pratt.expr.id].op \in BracketOps \cup OperandOps
  BY <1>7 DEF Running, TypeInv, Typed, TermsTyped, PrattInv, FromTable, Live
<1>10. LastPos = arena.nodes[pratt.expr.id].op.terms
  BY <1>7 DEF LastPos, InExpr, OpOf
<1>11. LastPos \in Nat \ {0}
  BY <1>9, <1>10, TableTerms
<1>12. ASSUME arena.nodes[pratt.expr.id].op.kind = "infix" PROVE LastPos # 1
  <2>1. arena.nodes[pratt.expr.id].op.terms = 2
    BY <1>9, <1>12, InfixTerms
  <2>2. QED
    BY <1>10, <2>1
<1>13. pratt.expr.k = "node"
  BY <1>7 DEF Live
<1>14. QED
  BY <1>1, <1>2, <1>3, <1>4, <1>5, <1>6, <1>7, <1>8, <1>9, <1>11, <1>12, <1>13

\* The place found is beyond the lines, unless it is the expression that a prefix
\* opens in.
LEMMA PrattStands ==
  ASSUME Running, Pratting, pratt.kind # "prefix", NEW b,
         \A e : Firm(arena, e) /\ Beyond({Mark(arena, e)}, pratt.expr) => Steady(arena, b, e)
  PROVE  Stands(b)
BY CallIs, LinesStand DEF Stands

LEMMA PrattLooserChain ==
  ASSUME Running, PrattLooser
  PROVE  ChainInv'
<1> DEFINE attach == IF pratt.kind = "suffix" THEN pratt.root ELSE pratt.expr
<1>1. /\ Pratting /\ PrattLoosens /\ arena' = Wrap(arena, pratt.expr, pratt.op, pratt.token)
      /\ Publish(rules[cur], pratt.kind, attach, rules) /\ pratt' = NoCall
  BY DEF PrattLooser, PrattReturn
<1>2. pratt.kind # "prefix"
  BY <1>1 DEF PrattLoosens
<1>3. /\ Formed(rules[cur]) /\ rules[cur].name = "expr" /\ rules[cur].child = 0
      /\ rules[cur].n.expr # 0 /\ rules[cur].parent \in DOMAIN rules \cup {0}
      /\ ~Under("val") /\ rules[cur].n.prefix = 0
      /\ rules[cur].parent < cur /\ Beyond(Lines, Linked(rules, rules[cur].parent))
      /\ Beyond(Lines, attach) /\ attach.k = "node"
      /\ Live(arena, pratt.expr) /\ Sound(arena) /\ Closed(arena) /\ Acyclic(arena)
      /\ pratt.op.kind = pratt.kind /\ pratt.kind \in DOMAIN Opening
  BY <1>1, <1>2, CallIs
<1>4. /\ Acyclic(arena')
      /\ \A e : Firm(arena, e) /\ Beyond({Mark(arena, e)}, pratt.expr) => Steady(arena, arena', e)
      /\ pratt.op.kind = "infix" => Firm(arena', pratt.expr)
  BY <1>1, <1>3, WrapTree
<1>5. Stands(arena')
  BY <1>1, <1>2, <1>4, PrattStands
<1>6. pratt.kind # "suffix" => Firm(arena', attach)
  BY <1>2, <1>3, <1>4 DEF Opening
<1> HIDE DEF attach
<1>7. IsSeq(rules) /\ Rest(rules)
  BY ChainIs, RestSame
<1>8. QED
  BY <1>1, <1>2, <1>3, <1>4, <1>5, <1>6, <1>7, Published

LEMMA PrattTighterChain ==
  ASSUME Running, PrattTighter
  PROVE  ChainInv'
<1> DEFINE last   == TermAt(arena, pratt.expr, LastPos)
           b      == NewNodeUnder(arena, pratt.op, pratt.token, <<last>>, pratt.expr)
           out    == Newest(b)
           attach == IF pratt.kind = "suffix" THEN pratt.root ELSE out
<1>1. /\ Pratting /\ pratt.kind # "prefix" /\ arena' = SetTerm(b, pratt.expr, LastPos, out)
      /\ Publish(rules[cur], pratt.kind, attach, rules) /\ pratt' = NoCall
  BY DEF PrattTighter, PrattReturn
<1>2. /\ Formed(rules[cur]) /\ rules[cur].name = "expr" /\ rules[cur].child = 0
      /\ rules[cur].n.expr # 0 /\ rules[cur].parent \in DOMAIN rules \cup {0}
      /\ ~Under("val") /\ rules[cur].n.prefix = 0
      /\ rules[cur].parent < cur /\ Beyond(Lines, Linked(rules, rules[cur].parent))
      /\ Beyond(Lines, pratt.root) /\ pratt.root.k = "node"
      /\ Live(arena, pratt.expr) /\ Sound(arena) /\ Closed(arena) /\ Acyclic(arena)
      /\ pratt.op.kind = pratt.kind /\ pratt.kind \in DOMAIN Opening
      /\ arena.nodes[pratt.expr.id].terms \in Seq(Value) /\ LastPos \in Nat \ {0}
  BY <1>1, CallIs
<1>3. /\ out = Handle(Len(arena.nodes) + 1)
      /\ Acyclic(arena')
      /\ \A e : Firm(arena, e) /\ Beyond({Mark(arena, e)}, pratt.expr) => Steady(arena, arena', e)
      /\ pratt.op.kind = "infix" => Firm(arena', out)
  <2>1. <<last>> \in {<< >>, <<TermAt(arena, pratt.expr, LastPos)>>} /\ <<last>> # << >>
    OBVIOUS
  <2>2. QED
    BY <1>1, <1>2, <2>1, BelowTree
<1>4. Beyond(Lines, out) /\ out.k = "node"
  BY <1>3, NewBeyond DEF Handle
<1>5. Stands(arena')
  BY <1>1, <1>3, PrattStands
<1> HIDE DEF out
<1>6. /\ pratt.kind # "suffix" => Firm(arena', attach)
      /\ Beyond(Lines, attach) /\ attach.k = "node"
  BY <1>1, <1>2, <1>3, <1>4 DEF Opening
<1> HIDE DEF attach
<1>7. IsSeq(rules) /\ Rest(rules)
  BY ChainIs, RestSame
<1>8. QED
  BY <1>1, <1>2, <1>3, <1>5, <1>6, <1>7, Published

\* A value held beyond the lines holds others beyond them.
LEMMA LinesHeld ==
  ASSUME Running, NEW v, Beyond(Lines, v), NEW i
  PROVE  Beyond(Lines, TermAt(arena, v, i))
<1>1. Closed(arena)
  BY ArenaClosed DEF Running
<1>2. ASSUME NEW N \in Lines
      PROVE  Beyond({N}, TermAt(arena, v, i))
  <2>1. PICK j \in 1..(Height - 1) :
          Awaits(rules, Chain[j]) /\ N = Mark(arena, rules[Chain[j]].node)
    BY <1>2 DEF Lines, Marks
  <2>2. Firm(arena, rules[Chain[j]].node) /\ Beyond({Mark(arena, rules[Chain[j]].node)}, v)
    BY <2>1, LinesAre DEF Beyond
  <2>3. QED
    BY <1>1, <2>1, <2>2, TermBeyond
<1>3. QED
  BY <1>2 DEF Beyond

LEMMA PrattDrillChain ==
  ASSUME Running, PrattDrill
  PROVE  ChainInv'
<1> DEFINE last == TermAt(arena, pratt.expr, LastPos)
<1>1. /\ Pratting /\ PrattDrills /\ pratt' = [pratt EXCEPT !.expr = last]
      /\ UNCHANGED <<input, at, arena, rules, stack, cur, status, result>>
  BY DEF PrattDrill
<1>2. pratt.kind # "prefix"
  BY <1>1 DEF PrattDrills
<1>3. /\ Beyond(Lines, pratt.expr) /\ rules[cur].name = "expr" /\ rules[cur].state = "open"
      /\ rules[cur].child = 0 /\ ~rules[cur].preval /\ Acyclic(arena)
  BY <1>1, <1>2, CallIs
<1>4. Beyond(Lines, last)
  BY <1>3, LinesHeld
<1>5. /\ pratt # NoCall /\ pratt = [kind |-> pratt.kind, op |-> pratt.op, token |-> pratt.token,
                                    root |-> pratt.root, expr |-> pratt.expr]
  BY <1>1 DEF Pratting, Running, TypeInv, PrattInv, CallOK
<1> HIDE DEF last
<1>6. pratt'.kind = pratt.kind /\ pratt'.root = pratt.root /\ pratt'.expr = last
  BY <1>1, <1>5
<1>7. pratt' # NoCall
  <2>1. pratt.kind # "none"
    BY <1>1, CallIs DEF Opening
  <2>2. QED
    BY <1>6, <2>1 DEF NoCall
<1>8. /\ Chain' = Chain /\ Len(Chain) = Height /\ Chain[Height] = cur
      /\ TopHolds(arena, rules, Chain, t0, pratt) /\ Frames(arena, rules, Chain) /\ cur # 0
  <2>1. Chain' = Chain
    BY <1>1 DEF Chain
  <2>2. cur # 0
    BY <1>1 DEF Running, ChainInv
  <2>3. QED
    BY <2>1, <2>2, ChainIs
<1>9. TopExprCall(arena, rules, Chain, Height, pratt)
  BY <1>3, <1>5, <1>8 DEF TopHolds
<1>10. TopExprCall(arena, rules, Chain, Height, pratt')
  BY <1>2, <1>4, <1>6, <1>9 DEF TopExprCall, Lines
<1>11. TopHolds(arena, rules, Chain, t0', pratt')
  BY <1>3, <1>7, <1>8, <1>10 DEF TopHolds
<1>12. ChainInv'
  BY <1>1, <1>3, <1>8, <1>11 DEF ChainInv
<1>13. QED
  BY <1>12

\* A step in the expression that is handed down to the val an operand is read by.
LEMMA SeedStands ==
  ASSUME Running, Under("val"), NEW b,
         LET v == rules[Below].node
         IN  /\ \A e : Firm(arena, e) /\ Beyond({Mark(arena, e)}, v) => Steady(arena, b, e)
             /\ Firm(arena, v) => Steady(arena, b, v)
  PROVE  Stands(b)
<1> DEFINE v == rules[Below].node
           j == Height - 2
<1>1. Height > 1 /\ rules[Below].name = "val" /\ Height \in Nat
  BY ChainIs DEF Under, Above, Below
<1>2. Waits(arena, rules, Chain, Height - 1) /\ Chain[Height - 1] = Below
  BY <1>1, BelowWaits
<1>3. Lines = Marks(arena, rules, Chain, Height - 1) /\ Below \in DOMAIN rules
  BY <1>1, LinesBelow
<1>4. ValHolds(arena, rules, Chain, Height - 1)
  BY <1>1, <1>2 DEF Waits, Awaits
<1>5. /\ \A e : Firm(arena, e) /\ Beyond({Mark(arena, e)}, v) => Steady(arena, b, e)
      /\ Firm(arena, v) => Steady(arena, b, v)
  OBVIOUS
<1>6. CASE Beyond(Lines, v)
  BY <1>5, <1>6, LinesStand DEF Stands
<1>7. CASE Above(rules, Chain, Height - 1, "expr") /\ v = rules[Chain[(Height - 1) - 1]].node
  <2>1. j \in Nat \ {0} /\ j \in 1..(Height - 1) /\ (Height - 1) - 1 = j /\ j + 1 = Height - 1
    BY <1>1, <1>7 DEF Above
  <2>2. rules[Chain[j]].name = "expr" /\ v = rules[Chain[j]].node
    BY <1>7, <2>1 DEF Above
  <2>3. Pushed(arena, rules, Chain, j) /\ Chain[j] \in DOMAIN rules
    <3>1. j \in 1..Len(Chain) /\ j \in 1..(Len(Chain) - 1)
      BY <2>1, ChainIs
    <3>2. QED
      BY <3>1, ChainIs DEF Frames, Sorted
  <2>4. Awaits(rules, Chain[j])
    <3>1. rules[Chain[j]].child = Below
      BY <1>2, <2>1, <2>2, <2>3 DEF Pushed
    <3>2. Below # 0
      BY <1>3, ChainIs
    <3>3. QED
      BY <1>1, <2>2, <3>1, <3>2 DEF Awaits
  <2>5. ExprHolds(arena, rules, Chain, j)
    BY <2>1, <2>4, LinesAre
  <2> HIDE DEF j, v
  <2>6. Beyond(Marks(arena, rules, Chain, j), v)
    BY <2>2, <2>5 DEF ExprHolds
  <2>7. ASSUME NEW i \in 1..(Height - 1), Awaits(rules, Chain[i])
        PROVE  Steady(arena, b, rules[Chain[i]].node)
    <3>1. i # Height - 1
      BY <1>1, <1>2, <2>7 DEF Awaits
    <3>2. i = j \/ i \in 1..(j - 1)
      BY <1>1, <2>1, <3>1
    <3>3. Firm(arena, rules[Chain[i]].node)
      BY <2>7, LinesAre
    <3>4. CASE i = j
      BY <1>5, <2>2, <3>3, <3>4
    <3>5. CASE i \in 1..(j - 1)
      <4>1. Mark(arena, rules[Chain[i]].node) \in Marks(arena, rules, Chain, j)
        BY <2>7, <3>5 DEF Marks
      <4>2. Beyond({Mark(arena, rules[Chain[i]].node)}, v)
        BY <2>6, <4>1 DEF Beyond
      <4>3. QED
        BY <1>5, <3>3, <4>2
    <3>6. QED
      BY <3>2, <3>4, <3>5
  <2>8. QED
    BY <2>7 DEF Stands
<1>8. QED
  BY <1>2, <1>3, <1>4, <1>6, <1>7 DEF ValHolds

\* A prefix opens in the expression that is read, which draws a line itself.
LEMMA PrattPrefixChain ==
  ASSUME Running, PrattPrefix
  PROVE  ChainInv'
<1> DEFINE b   == NewNodeUnder(arena, pratt.op, pratt.token, << >>, pratt.expr)
           out == Newest(b)
<1>1. /\ Pratting /\ pratt.kind = "prefix" /\ arena' = SetTerm(b, pratt.expr, LastPos, out)
      /\ Publish(rules[cur], pratt.kind, out, rules) /\ pratt' = NoCall
  BY DEF PrattPrefix, PrattReturn
<1>2. /\ Formed(rules[cur]) /\ rules[cur].name = "expr" /\ rules[cur].child = 0
      /\ rules[cur].n.expr # 0
      /\ Under("val") /\ rules[cur].n.prefix # 0
      /\ pratt.expr = rules[Below].node /\ pratt.expr.k = "node"
      /\ Live(arena, pratt.expr) /\ Sound(arena) /\ Closed(arena) /\ Acyclic(arena)
      /\ pratt.op.kind = pratt.kind
      /\ arena.nodes[pratt.expr.id].terms \in Seq(Value) /\ LastPos \in Nat \ {0}
      /\ arena.nodes[pratt.expr.id].op.kind = "infix" => LastPos # 1
  BY <1>1, CallIs
<1>3. /\ out = Handle(Len(arena.nodes) + 1) /\ Acyclic(arena')
      /\ \A e : Firm(arena, e) /\ Beyond({Mark(arena, e)}, pratt.expr) => Steady(arena, arena', e)
      /\ Firm(arena, pratt.expr) => Steady(arena, arena', pratt.expr)
      /\ Firm(arena', out)
  <2>1. << >> \in {<< >>, <<TermAt(arena, pratt.expr, LastPos)>>}
    OBVIOUS
  <2>2. QED
    BY <1>1, <1>2, <2>1, BelowTree
<1>4. Beyond(Lines, out) /\ out.k = "node"
  BY <1>3, NewBeyond DEF Handle
<1> HIDE DEF out
<1>5. Stands(arena')
  <2> DEFINE v == rules[Below].node
  <2>1. /\ \A e : Firm(arena, e) /\ Beyond({Mark(arena, e)}, v) => Steady(arena, arena', e)
        /\ Firm(arena, v) => Steady(arena, arena', v)
    BY <1>2, <1>3
  <2> HIDE DEF v
  <2>2. QED
    BY <1>2, <2>1, SeedStands DEF v
<1>6. IsSeq(rules) /\ Rest(rules)
  BY ChainIs, RestSame
<1>7. QED
  BY <1>1, <1>2, <1>3, <1>4, <1>5, <1>6, Published

(***************************************************************************)
(* expr: closing.                                                          *)
(***************************************************************************)
LEMMA ExprCloses ==
  ASSUME Running, Passing("expr", "close")
  PROVE  /\ TopExprClose(arena, rules, Chain, Height, t0) /\ Chain[Height] = cur
         /\ rules[cur].name = "expr" /\ rules[cur].state = "close" /\ Formed(rules[cur])
         /\ pratt = NoCall /\ ~Under("expr")
         /\ rules[cur].child \in DOMAIN rules \cup {0}
         /\ rules[cur].parent \in DOMAIN rules \cup {0}
<1>1. /\ rules[cur].name = "expr" /\ rules[cur].state = "close" /\ Formed(rules[cur])
      /\ pratt = NoCall
  BY PassIs
<1>2. /\ Chain[Height] = cur /\ TopHolds(arena, rules, Chain, t0, pratt) /\ Len(Chain) = Height
      /\ Sorted(rules, Chain) /\ cur \in DOMAIN rules
  BY ChainIs
<1>3. TopExprClose(arena, rules, Chain, Height, t0)
  BY <1>1, <1>2 DEF TopHolds
<1>4. QED
  BY <1>1, <1>2, <1>3, ExprBelow DEF Sorted

\* The last operand completes the expression: it is beyond the line the
\* expression has drawn.
LEMMA CompletedTree ==
  ASSUME Running, Passing("expr", "close")
  PROVE  Acyclic(Completed(rules[cur])) /\ Stands(Completed(rules[cur]))
<1> DEFINE E == rules[cur]
           w == NodeOf(E.child)
           b == Completed(E)
<1>1. Sound(arena) /\ Closed(arena) /\ Acyclic(arena)
  BY ArenaClosed DEF Running, ChainInv
<1>2. CASE b = arena
  BY <1>1, <1>2, StandsStill
<1>3. CASE b # arena
  <2>1. /\ Live(arena, E.node) /\ E.node.k = "node" /\ b = PushTerm(arena, E.node, w)
        /\ ~SameNode(E.node, w)
    BY <1>3 DEF Completed, IsOp, Live
  <2>2. arena.nodes[E.node.id].terms \in Seq(Value)
    BY <2>1 DEF Live, Running, TypeInv, Typed, TermsTyped
  <2>3. TopExprClose(arena, rules, Chain, Height, t0) /\ Chain[Height] = cur
    BY ExprCloses
  <2>4. w = IF E.child = 0 THEN Undefined ELSE rules[E.child].node
    BY DEF NodeOf
  <2>5. /\ Beyond(Lines, E.node) /\ Beyond(Lines, w)
        /\ w.k = "node" => Firm(arena, E.node) /\ w.id > Mark(arena, E.node)
    <3>1. CASE E.child = 0 /\ Beyond(Lines, E.node)
      BY <2>4, <3>1 DEF Undefined, Beyond
    <3>2. CASE /\ Awaits(rules, cur) /\ ExprHolds(arena, rules, Chain, Height)
               /\ \/ rules[E.child].node = E.node
                  \/ Beyond(Lines \cup {Mark(arena, E.node)}, rules[E.child].node)
      <4>1. w = rules[E.child].node
        BY <2>4, <3>2 DEF Awaits
      <4>2. w # E.node
        BY <2>1 DEF SameNode
      <4>3. Beyond(Lines \cup {Mark(arena, E.node)}, w)
        BY <3>2, <4>1, <4>2
      <4>4. Firm(arena, E.node) /\ Beyond(Lines, E.node)
        BY <2>3, <3>2 DEF ExprHolds, Lines
      <4>5. QED
        BY <4>3, <4>4 DEF Beyond
    <3>3. CASE E.child # 0 /\ E.node = rules[E.child].node
      BY <2>1, <2>4, <3>3 DEF SameNode
    <3>4. QED
      BY <2>3, <3>1, <3>2, <3>3 DEF TopExprClose, Lines
  <2>6. Acyclic(b) /\ \A e : Firm(arena, e) /\ Beyond({Mark(arena, e)}, E.node)
                               /\ Beyond({Mark(arena, e)}, w) => Steady(arena, b, e)
    <3> HIDE DEF E, w, b
    <3>1. QED
      BY <1>1, <2>1, <2>2, <2>5, PushTree
  <2>7. Stands(b)
    <3> HIDE DEF E, w, b
    <3>1. QED
      BY <2>5, <2>6, LinesAre DEF Stands, Beyond
  <2>8. QED
    BY <2>6, <2>7
<1>4. QED
  BY <1>2, <1>3

LEMMA ExprCloseReplaceChain ==
  ASSUME Running, ExprCloseReplace
  PROVE  ChainInv'
<1> DEFINE E   == rules[cur]
           R   == Rooted(arena', E)
           S   == Rule(ExprCloseAlt(E), E.node, E.n, E.parent, cur, E.d)
<1>1. /\ Passing("expr", "close") /\ ExprCloseAlt(E) \in {"expr", "ternary"}
      /\ arena' = Completed(E) /\ rules' = Append([rules EXCEPT ![cur] = R], S)
      /\ cur' = Len(rules) + 1 /\ Keep /\ stack' = stack /\ pratt' = pratt
  BY DEF ExprCloseReplace
<1>2. /\ ExprCloseAlt(E) = "expr" /\ t0 \in DOMAIN Infix \cup DOMAIN Suffix /\ E.n.prefix = 0
      /\ ~(E.child # 0 /\ rules[E.child].name = "paren")
  <2>1. ExprCloseAlt(E) # "ternary"
    <3>1. Tern0 = {}
      BY DEF Running, NoTernaries, Tern0
    <3>2. QED
      BY <3>1, ExprCloseChosen
  <2>2. QED
    BY <1>1, <2>1, ExprCloseChosen
<1>3. /\ TopExprClose(arena, rules, Chain, Height, t0) /\ Chain[Height] = cur
      /\ E.name = "expr" /\ Formed(E) /\ pratt = NoCall /\ ~Under("expr")
  BY <1>1, ExprCloses
<1>4. /\ ~Under("val") /\ E.parent < cur /\ Beyond(Lines, Linked(rules, E.parent))
      /\ E.node = E.attach /\ E.node.k = "node" /\ Beyond(Lines, E.node)
  BY <1>2, <1>3 DEF TopExprClose, ExprHolds, Apart, Firm, Live, Under, Lines
<1>5. R.name = "expr" /\ R.attach = E.attach
  BY <1>3 DEF Rooted, Formed
<1>6. /\ S.name = "expr" /\ S.state = "open" /\ S.child = 0 /\ ~S.preval /\ S.prev = cur
      /\ S.n.prefix = 0 /\ S.parent = E.parent
  BY <1>2 DEF Rule
<1> HIDE DEF R, S
<1>7. Acyclic(arena') /\ Stands(arena')
  BY <1>1, CompletedTree
<1>8. t0' \in DOMAIN Infix \cup DOMAIN Suffix
  BY <1>1, <1>2, KeepsToken
<1>9. Beyond(Lines, IF R.attach.k = "node" THEN R.attach ELSE R.node) /\ R.attach.k = "node"
  BY <1>4, <1>5
<1>10. R.name = E.name /\ E.name \in {"val", "expr"} /\ R.name # "val"
  BY <1>3, <1>5
<1>11. pratt' = NoCall
  BY <1>1, <1>3
<1>12. QED
  BY <1>1, <1>3, <1>4, <1>6, <1>7, <1>8, <1>9, <1>10, <1>11, Replaces

\* The node of an expression that is put back on its rule.
LEMMA RootedIs ==
  ASSUME NEW a, NEW E, Formed(E)
  PROVE  LET R == Rooted(a, E)
         IN  /\ R.name = E.name
             /\ E.node.k # "node" => R.node = E.node
             /\ E.node # Undefined => R.node # Undefined
BY DEF Rooted, Formed, IsOp, Live, Handle, Undefined

LEMMA ExprPops ==
  ASSUME Running, Passing("expr", "close"), NEW F, Formed(F), F.name = "expr",
         F.node = rules[cur].node, arena' = Completed(rules[cur]),
         Pop(Rooted(arena', F), rules, t0), Keep, pratt' = NoCall
  PROVE  ChainInv'
<1> DEFINE E == rules[cur]
           R == Rooted(arena', F)
<1>1. Acyclic(arena') /\ Stands(arena') /\ IsSeq(rules) /\ Rest(rules) /\ t0' = t0
  BY CompletedTree, ChainIs, RestSame, KeepsToken
<1>2. CASE status' # "run"
  BY <1>1, <1>2, Halted
<1>3. CASE status' = "run"
  <2>1. /\ R.name = "expr"
        /\ E.node.k # "node" => R.node = E.node
        /\ E.node # Undefined => R.node # Undefined
    BY RootedIs
  <2>2. /\ TopExprClose(arena, rules, Chain, Height, t0) /\ Chain[Height] = cur
        /\ E.name = "expr" /\ ~Under("expr") /\ Pop(R, rules, t0)
    BY ExprCloses
  <2> HIDE DEF R
  <2>3. /\ rules'[cur] = R
        /\ \A r \in DOMAIN rules \ {cur} : rules'[r] = rules[r]
        /\ Height > 1 /\ cur' = Below /\ cur' # 0
        /\ Len(Chain') = Height - 1 /\ Chain'[Height - 1] = Below
        /\ Frames(arena', rules', Chain') /\ Waits(arena', rules', Chain', Height - 1)
        /\ Marks(arena', rules', Chain', Height - 1) = Marks(arena, rules, Chain, Height - 1)
    BY <1>1, <1>3, <2>1, <2>2, PopOn
  <2>4. /\ Below \in DOMAIN rules /\ Below # cur
        /\ \A name : Under(name) <=> rules[Below].name = name
        /\ Under("val") \/ Under("paren") => Lines = Marks(arena, rules, Chain, Height - 1)
    BY <2>3, LinesBelow
  <2>5. rules'[Below] = rules[Below] /\ cur # 0 /\ cur \in DOMAIN rules
    BY <2>3, <2>4, ChainIs
  <2>6. CASE Under("val")
    <3>1. rules[Below].name = "val" /\ rules[Below].child = cur
      BY <2>6, SeedBelow
    <3>2. /\ ValHolds(arena', rules', Chain', Height - 1) /\ rules'[Below].state = "close"
          /\ Lines = Marks(arena', rules', Chain', Height - 1)
      BY <2>3, <2>4, <2>5, <2>6, <3>1 DEF Waits, Awaits
    <3>3. \/ rules[Below].node.k = "node" /\ ~Chained(t0)
          \/ /\ E.node = rules[Below].node /\ Beyond(Lines, E.node) /\ E.node # Undefined
      <4>1. Above(rules, Chain, Height, "val") /\ rules[Chain[Height - 1]] = rules[Below]
        BY <2>6 DEF Under, Below
      <4>2. ExprHolds(arena, rules, Chain, Height) => rules[Below].node.k = "node"
        BY <4>1 DEF ExprHolds, Apart
      <4>3. ~Apart(arena, rules, Chain, Height)
        BY <4>1 DEF Apart
      <4>4. QED
        BY <2>2, <4>1, <4>2, <4>3 DEF TopExprClose, Lines
    <3>4. rules'[rules'[Below].child].node = R.node /\ rules'[Below].child # 0
      BY <2>3, <2>5, <3>1
    <3>5. ASSUME rules[Below].node.k = "node" /\ ~Chained(t0)
          PROVE  TopVal(arena', rules', Chain', Height - 1, t0')
      <4>1. rules'[Chain'[Height - 1]].node.k = "node" /\ ~Chained(t0')
        BY <1>1, <2>3, <2>5, <3>5
      <4>2. QED
        BY <3>2, <4>1 DEF TopVal
    <3>6. ASSUME E.node = rules[Below].node /\ Beyond(Lines, E.node) /\ E.node # Undefined
          PROVE  TopVal(arena', rules', Chain', Height - 1, t0')
      <4>1. rules'[Below].node = E.node /\ Beyond(Marks(arena', rules', Chain', Height - 1), E.node)
        BY <2>5, <3>2, <3>6
      <4>2. R.node # Undefined /\ (E.node.k # "node" => Beyond(Lines, R.node))
        BY <2>1, <3>6
      <4>3. QED
        BY <2>3, <3>2, <3>4, <4>1, <4>2 DEF TopVal
    <3>7. TopVal(arena', rules', Chain', Height - 1, t0')
      BY <3>3, <3>5, <3>6
    <3>8. rules'[Below].name = "val"
      BY <2>5, <3>1
    <3>9. TopHolds(arena', rules', Chain', t0', pratt')
      BY <2>3, <3>2, <3>7, <3>8 DEF TopHolds
    <3>10. QED
      BY <1>1, <2>3, <3>9, ChainNext
  <2>7. CASE ~Under("val")
    <3>1. /\ Under("paren") /\ rules[Below].name = "paren"
          /\ rules[Below].child < cur /\ Inside(arena, rules, Chain, Height - 1)
      BY <2>2, <2>3, <2>7, UnderParen
    <3>2. /\ rules'[Below].state = "close" /\ rules'[Below].name = "paren"
          /\ rules'[Below].node = Undefined /\ Above(rules', Chain', Height - 1, "expr")
      BY <2>3, <2>5, <3>1 DEF Waits, Awaits
    <3>3. /\ rules[Below].child \in DOMAIN rules \ {cur} /\ rules[Below].child # 0
          /\ rules[rules[Below].child].name = "val"
          /\ rules[rules[Below].child].node # Undefined
          /\ Beyond(Marks(arena, rules, Chain, Height - 1), rules[rules[Below].child].node)
      <4>1. rules[Below].child \in DOMAIN rules \cup {0} /\ DOMAIN rules \subseteq Nat \ {0}
        BY <2>4, ChainIs DEF Sorted
      <4>2. Chain[Height - 1] = Below
        BY DEF Below
      <4>3. rules[Below].child # cur
        BY <2>5, <3>1, <4>1
      <4>4. QED
        BY <3>1, <4>1, <4>2, <4>3 DEF Inside
    <3>4. TopParen(arena', rules', Chain', Height - 1, t0')
      BY <2>3, <2>5, <3>2, <3>3 DEF TopParen
    <3>5. TopHolds(arena', rules', Chain', t0', pratt')
      BY <2>3, <3>2, <3>4 DEF TopHolds
    <3>6. QED
      BY <1>1, <2>3, <3>5, ChainNext
  <2>8. QED
    BY <2>6, <2>7
<1>4. QED
  BY <1>2, <1>3

LEMMA ExprClosePopChain ==
  ASSUME Running, ExprClosePop
  PROVE  ChainInv'
<1>1. /\ Passing("expr", "close") /\ arena' = Completed(rules[cur])
      /\ Pop(Rooted(arena', rules[cur]), rules, t0) /\ Keep /\ pratt' = pratt
  BY DEF ExprClosePop
<1>2. rules[cur].name = "expr" /\ Formed(rules[cur]) /\ pratt = NoCall
  BY <1>1, PassIs
<1>3. QED
  BY <1>1, <1>2, ExprPops

LEMMA ExprCloseEndChain ==
  ASSUME Running, ExprCloseEnd
  PROVE  ChainInv'
<1> DEFINE F == [rules[cur] EXCEPT !.n.expr = 0]
<1>1. /\ Passing("expr", "close") /\ arena' = Completed(rules[cur])
      /\ Pop(Rooted(arena', F), rules, t0) /\ Keep /\ pratt' = pratt
  BY DEF ExprCloseEnd
<1>2. rules[cur].name = "expr" /\ Formed(rules[cur]) /\ pratt = NoCall
  BY <1>1, PassIs
<1>3. Formed(F) /\ F.name = "expr" /\ F.node = rules[cur].node
  BY <1>2 DEF Formed
<1> HIDE DEF F
<1>4. QED
  BY <1>1, <1>2, <1>3, ExprPops

LEMMA ExprCloseBaseChain ==
  ASSUME Running, ExprCloseBase
  PROVE  ChainInv'
<1>1. Passing("expr", "close") /\ arena' = Completed(rules[cur]) /\ status' = "base"
  BY DEF ExprCloseBase
<1>2. Acyclic(arena')
  BY <1>1, CompletedTree
<1>3. QED
  BY <1>1, <1>2, Halted

(***************************************************************************)
(* paren                                                                   *)
(***************************************************************************)
LEMMA ParenOpenChosen ==
  ParenOpenAlt = "empty" => t0 \in ParenOpen /\ t1 \in ParenClose /\ Opens(t0) = Closes(t1)
<1> DEFINE alts == <<
    << t0 \in ParenOpen /\ t1 \in ParenClose /\ Opens(t0) = Closes(t1), "empty" >>,
    << t0 \in ParenOpen, "open" >> >>
<1>1. ParenOpenAlt = FirstMatch(alts) /\ DOMAIN alts = 1..2
  BY DEF ParenOpenAlt
<1>2. alts[1][2] = "empty" /\ alts[2][2] = "open"
  OBVIOUS
<1>3. alts[1][1] => t0 \in ParenOpen /\ t1 \in ParenClose /\ Opens(t0) = Closes(t1)
  BY Zenon
<1> HIDE DEF alts
<1>4. SUFFICES ASSUME FirstMatch(alts) = "empty"
               PROVE  t0 \in ParenOpen /\ t1 \in ParenClose /\ Opens(t0) = Closes(t1)
  BY <1>1
<1>5. PICK i \in 1..2 : alts[i][1] /\ FirstMatch(alts) = alts[i][2]
  BY <1>1, <1>4, FirstMatchHolds
<1>6. i = 1 \/ i = 2
  BY <1>5
<1>7. QED
  BY <1>2, <1>3, <1>4, <1>5, <1>6

\* A paren is below nothing but the expr that pushed it.
LEMMA ParenPasses ==
  ASSUME Running, NEW state, Passing("paren", state)
  PROVE  /\ TopParen(arena, rules, Chain, Height, t0) /\ rules[cur].name = "paren"
         /\ rules[cur].state = state /\ Chain[Height] = cur
         /\ Under("expr") /\ ~Under("val") /\ pratt = NoCall /\ Acyclic(arena)
         /\ Formed(rules[cur]) /\ IsSeq(rules)
<1>1. /\ rules[cur].name = "paren" /\ rules[cur].state = state /\ pratt = NoCall
      /\ Formed(rules[cur])
  BY PassIs
<1>2. /\ TopHolds(arena, rules, Chain, t0, pratt) /\ Len(Chain) = Height /\ Chain[Height] = cur
      /\ IsSeq(rules)
  BY ChainIs
<1>3. TopParen(arena, rules, Chain, Height, t0)
  BY <1>1, <1>2 DEF TopHolds
<1>4. Under("expr") /\ ~Under("val")
  BY <1>3 DEF TopParen, Under, Above
<1>5. QED
  BY <1>1, <1>2, <1>3, <1>4 DEF Running, ChainInv

LEMMA OpenedIs ==
  ASSUME Running, Formed(rules[cur]), NEW name
  PROVE  LET O == Opened(name)
         IN  /\ Formed(O) /\ O.name = rules[cur].name /\ O.node = Undefined
             /\ O.parent = rules[cur].parent /\ O.child = rules[cur].child
             /\ O.depth = {name}
BY DEF Opened, Formed

LEMMA ParenOpenEmptyChain ==
  ASSUME Running, ParenOpenEmpty
  PROVE  ChainInv'
<1> DEFINE O == Opened(Opens(t0))
           S == [O EXCEPT !.state = "close"]
<1>1. /\ Passing("paren", "open") /\ ParenOpenAlt = "empty" /\ Stay(O, rules) /\ Consume
      /\ arena' = arena /\ pratt' = pratt
  BY DEF ParenOpenEmpty
<1>2. /\ rules[cur].name = "paren" /\ Under("expr") /\ ~Under("val") /\ pratt = NoCall
      /\ Acyclic(arena) /\ Formed(rules[cur]) /\ IsSeq(rules) /\ rules[cur].child = 0
  BY <1>1, ParenPasses, PassIs
<1>3. /\ Formed(O) /\ O.name = "paren" /\ O.node = Undefined
      /\ O.parent = rules[cur].parent /\ O.child = 0 /\ O.depth = {Opens(t0)}
  BY <1>2, OpenedIs
<1>4. /\ rules' = [rules EXCEPT ![cur] = S] /\ cur' = cur /\ stack' = stack
  BY <1>1 DEF Stay
<1> HIDE DEF O
<1>5. /\ Formed(S) /\ S.name = "paren" /\ S.node = Undefined /\ S.state = "close"
      /\ S.parent = rules[cur].parent /\ S.child = 0 /\ S.depth = {Opens(t0)}
  BY <1>3 DEF Formed
<1> HIDE DEF S
<1>6. TopKept(S, rules') /\ Rest(rules) /\ Stands(arena')
  BY <1>1, <1>2, <1>5, RestSame, StandsStill DEF TopKept
<1>7. /\ rules'[cur] = S
      /\ \A nm : Above(rules', Chain', Height, nm) <=> Under(nm)
      /\ cur' # 0 /\ Chain'[Height] = cur /\ Len(Chain') = Height
      /\ Frames(arena', rules', Chain')
  BY <1>2, <1>4, <1>6, StayOn
<1>8. t0' \in ParenClose /\ Closes(t0') \in S.depth
  <2>1. t1 \in ParenClose /\ Opens(t0) = Closes(t1) /\ t1 # ZZ
    BY <1>1, ParenOpenChosen, BracketTokens
  <2>2. t0' = t1
    BY <1>1, <2>1, NextToken DEF Running, TypeInv, Typed
  <2>3. QED
    BY <1>5, <2>1, <2>2
<1>9. TopParen(arena', rules', Chain', Height, t0')
  BY <1>2, <1>5, <1>7, <1>8 DEF TopParen
<1>10. TopHolds(arena', rules', Chain', t0', pratt')
  BY <1>1, <1>2, <1>5, <1>7, <1>9 DEF TopHolds
<1>11. QED
  BY <1>1, <1>2, <1>7, <1>10, ChainNext

LEMMA ParenOpenValChain ==
  ASSUME Running, ParenOpenVal
  PROVE  ChainInv'
<1> DEFINE O == Opened(Opens(t0))
           R == [O EXCEPT !.n.paren = @ + 1, !.n.expr = 0, !.n.prefix = 0, !.n.suffix = 0]
<1>1. /\ Passing("paren", "open") /\ Push(R, "val", rules)
      /\ arena' = arena /\ pratt' = pratt
  BY DEF ParenOpenVal
<1>2. rules[cur].name = "paren" /\ pratt = NoCall /\ Formed(rules[cur])
  BY <1>1, ParenPasses
<1>3. /\ Formed(O) /\ O.name = "paren" /\ O.node = Undefined
      /\ O.parent = rules[cur].parent
  BY <1>2, OpenedIs
<1> HIDE DEF O
<1>4. /\ Formed(R) /\ R.name = "paren" /\ R.node = Undefined
      /\ R.parent = rules[cur].parent
  BY <1>3 DEF Formed
<1> HIDE DEF R
<1>5. QED
  BY <1>1, <1>2, <1>4, PushInner

\* The expr and the val below a paren that closes.
LEMMA ParenPlace ==
  ASSUME Running, Passing("paren", "close")
  PROVE  LET G == Chain[Height - 2]
         IN  /\ Height - 2 \in 1..(Height - 1) /\ (Height - 2) + 1 = Height - 1
             /\ (Height - 1) + 1 = Height /\ Chain[Height - 1] = Below
             /\ rules[cur].parent = Below /\ rules[Below].parent = G
             /\ rules[Below].name = "expr" /\ rules[Below].child = cur
             /\ rules[Below].state = "close"
             /\ rules[G].name = "val" /\ rules[G].attach = Undefined
             /\ G \in DOMAIN rules /\ Below \in DOMAIN rules /\ G < Below /\ Below < cur
             /\ G # Below /\ G # cur /\ Below # cur /\ G # 0 /\ cur # 0
             /\ Marks(arena, rules, Chain, Height - 1) = Lines
             /\ Marks(arena, rules, Chain, Height - 2) = Lines
             /\ rules[G].preval => Beyond(Lines, rules[G].node)
             /\ Above(rules, Chain, Height - 1, "val")
<1> DEFINE G == Chain[Height - 2]
           j == Height - 2
<1>1. rules[cur].name = "paren" /\ Under("expr")
  BY ParenPasses
<1>2. Height > 1
  BY <1>1 DEF Under, Above
<1>3. /\ Waits(arena, rules, Chain, Height - 1) /\ Pushed(arena, rules, Chain, Height - 1)
      /\ Chain[Height - 1] = Below /\ Chain[(Height - 1) + 1] = cur
  BY <1>2, BelowWaits
<1>4. /\ rules[Below].name = "expr" /\ Below \in DOMAIN rules /\ Below < cur /\ Below # cur
      /\ cur # 0 /\ cur \in DOMAIN rules /\ DOMAIN rules \subseteq Nat \ {0}
  BY <1>1, <1>2, LinesBelow, ChainIs DEF Sorted
<1>5. rules[Below].child = cur /\ rules[cur].parent = Below
  BY <1>1, <1>3, <1>4 DEF Pushed
<1>6. ~Awaits(rules, Below)
  BY <1>1, <1>5 DEF Awaits
<1>7. Above(rules, Chain, Height - 1, "val") /\ rules[Below].state = "close"
  BY <1>3, <1>4, <1>6 DEF Waits
<1>8. /\ j \in Nat \ {0} /\ j + 1 = Height - 1 /\ (Height - 1) - 1 = j /\ (Height - 1) + 1 = Height
      /\ j \in 1..(Len(Chain) - 1) /\ j \in 1..(Height - 1) /\ j + 1 \in 1..Len(Chain)
      /\ j \in 1..Len(Chain) /\ j < j + 1
  <2>1. Height - 1 > 1 /\ Height \in Nat /\ Len(Chain) = Height
    BY <1>7, ChainIs DEF Above
  <2>2. QED
    BY <2>1
<1>9. rules[G].name = "val"
  BY <1>7, <1>8 DEF Above
<1>10. Waits(arena, rules, Chain, j) /\ Pushed(arena, rules, Chain, j)
  BY <1>8, ChainIs DEF Frames
<1>11. ValHolds(arena, rules, Chain, j)
  BY <1>9, <1>10 DEF Waits, Awaits
<1>12. rules[Below].parent = G
  BY <1>3, <1>8, <1>9, <1>10 DEF Pushed
<1>13. G \in DOMAIN rules /\ G < Below
  BY <1>3, <1>8, ChainIs DEF Frames, Sorted
<1>14. G # Below /\ G # cur /\ G # 0
  BY <1>4, <1>13
<1>15. rules[G].attach = Undefined
  <2>1. rules[G] \in Rules(Value, Len(rules))
    BY <1>13, ChainIs
  <2>2. QED
    BY <1>9, <2>1, Fields
<1>16. Marks(arena, rules, Chain, Height - 1) = Lines
  BY <1>2, <1>6, LinesBelow
<1>17. Marks(arena, rules, Chain, j) = Lines
  <2>1. ~Awaits(rules, Chain[j])
    BY <1>9 DEF Awaits
  <2>2. j \in Nat \ {0} /\ j + 1 = Height - 1
    BY <1>8
  <2> HIDE DEF j
  <2>3. Marks(arena, rules, Chain, j + 1) =
          Marks(arena, rules, Chain, j)
            \cup (IF Awaits(rules, Chain[j]) THEN {Mark(arena, rules[Chain[j]].node)} ELSE {})
    BY <2>2, MarksNext
  <2>4. QED
    BY <1>16, <2>1, <2>2, <2>3
<1>18. rules[G].preval => Beyond(Lines, rules[G].node)
  BY <1>11, <1>17 DEF ValHolds
<1>19. QED
  BY <1>3, <1>4, <1>5, <1>7, <1>8, <1>9, <1>12, <1>13, <1>14, <1>15, <1>16, <1>17, <1>18

\* What a paren holds, and the terms its node gets.
LEMMA ParenHolds ==
  ASSUME Running, Passing("paren", "close"), AcceptsCloser(rules[cur])
  PROVE  LET inner == ParenInner(rules[cur])
             terms == ParenTerms(rules[cur], rules[rules[cur].parent].parent)
         IN  /\ Beyond(Lines, inner)
             /\ Closes(t0) \notin rules[cur].depth => inner # Undefined
             /\ Known(arena, terms) /\ \A i \in DOMAIN terms : Beyond(Lines, terms[i])
<1> DEFINE P     == rules[cur]
           G     == Chain[Height - 2]
           inner == ParenInner(P)
           terms == ParenTerms(P, G)
<1>1. P.parent = Below /\ rules[Below].parent = G /\ G \in DOMAIN rules
      /\ (rules[G].preval => Beyond(Lines, rules[G].node))
  BY ParenPlace
<1>2. TopParen(arena, rules, Chain, Height, t0) /\ P.state = "close" /\ Chain[Height] = cur
  BY ParenPasses
<1>3. /\ P.node = Undefined
      /\ P.child = 0 => Closes(t0) \in P.depth
      /\ P.child # 0 => Beyond(Lines, rules[P.child].node)
                        /\ (rules[P.child].node # Undefined \/ t0 = ZZ)
  BY <1>2 DEF TopParen, Lines
<1>4. inner = IF P.child = 0 THEN Undefined ELSE rules[P.child].node
  BY <1>3 DEF ParenInner, NodeOf
<1>5. t0 # ZZ
  BY BracketTokens DEF AcceptsCloser
<1>6. Beyond(Lines, inner)
  BY <1>3, <1>4 DEF Beyond, Undefined
<1>7. Closes(t0) \notin P.depth => inner # Undefined
  BY <1>3, <1>4, <1>5
<1>8. P \in Rules(Value, Len(rules)) /\ G \in 0..Len(rules) /\ G # 0
  BY <1>1, PassIs, ChainIs
<1>9. terms \in Seq(Value)
  <2>1. P.node \in Value /\ P.child \in 0..Len(rules)
    BY <1>8, Fields
  <2>2. QED
    BY <1>8, <2>1, ParenTermsTyped DEF Running
<1>10. Known(arena, terms)
  <2>1. \A i \in DOMAIN terms : terms[i] \in Value
    BY <1>9, ElementOfSeq, LenProperties
  <2>2. QED
    BY <2>1 DEF Known, Value, Values
<1>11. \A i \in DOMAIN terms : Beyond(Lines, terms[i])
  <2> DEFINE before == IF G # 0 /\ rules[G].preval /\ NodeOf(G) # Undefined
                       THEN <<NodeOf(G)>> ELSE << >>
             inside == IF inner = Undefined THEN << >> ELSE <<inner>>
             held   == {v \in {NodeOf(G), inner} : Beyond(Lines, v)}
  <2>1. terms = before \o inside
    BY DEF ParenTerms
  <2>2. before \in Seq(held)
    <3>1. CASE rules[G].preval
      <4>1. NodeOf(G) \in held
        BY <1>1, <1>8, <3>1 DEF NodeOf
      <4>2. QED
        BY <4>1, OneTerm
    <3>2. CASE ~rules[G].preval
      BY <3>2
    <3>3. QED
      BY <3>1, <3>2
  <2>3. inside \in Seq(held)
    <3>1. inner \in held
      BY <1>6
    <3>2. QED
      BY <3>1, OneTerm
  <2> HIDE DEF before, inside, terms
  <2>4. terms \in Seq(held)
    BY <2>1, <2>2, <2>3, ConcatProperties
  <2>5. \A i \in DOMAIN terms : terms[i] \in held
    BY <2>4, ElementOfSeq, LenProperties
  <2>6. QED
    BY <2>5
<1>12. QED
  BY <1>1, <1>6, <1>7, <1>10, <1>11

\* The chain goes no higher than what a pass leaves of it.
LEMMA LeftTop ==
  ASSUME NEW a, NEW b, NEW rs, NEW qs, NEW ch, NEW dh, NEW p, Sorted(rs, ch),
         Frames(a, rs, ch), Leaves(a, b, rs, qs, ch, dh, p),
         Len(dh) = p + 1, dh[p + 1] = ch[p + 1], p > 0 => Pushed(b, qs, dh, p)
  PROVE  Frames(b, qs, dh)
<1>1. p \in Nat /\ p < Len(ch) /\ Len(ch) \in Nat /\ p + 1 \in 1..Len(ch)
  BY DEF Leaves, Sorted
<1>2. /\ \A i, j \in 1..p : i < j => dh[i] < dh[j]
      /\ \A j \in 1..p : Waits(b, qs, dh, j)
      /\ \A j \in 1..(p - 1) : Pushed(b, qs, dh, j)
  BY LeftFrames
<1>3. \A i \in 1..p : dh[i] < dh[p + 1]
  BY LeftBelow
<1>4. \A j \in 1..(p + 1) : j = p + 1 \/ j \in 1..p
  BY <1>1
<1>5. \A i, j \in 1..(p + 1) : i < j => i \in 1..p
  BY <1>1
<1>6. \A i, j \in 1..(p + 1) : i < j => dh[i] < dh[j]
  BY <1>2, <1>3, <1>4, <1>5
<1>7. \A j \in 1..p : (j = p /\ p > 0) \/ j \in 1..(p - 1)
  BY <1>1
<1>8. \A j \in 1..p : Waits(b, qs, dh, j) /\ Pushed(b, qs, dh, j)
  BY <1>2, <1>7
<1>9. Len(dh) - 1 = p
  BY <1>1
<1>10. QED
  BY <1>6, <1>8, <1>9 DEF Frames

\* A paren that closes hands its node to the expr and the val below it.
LEMMA ParenHands ==
  ASSUME Running, Passing("paren", "close"), NEW node, node # Undefined, Beyond(Lines, node),
         Acyclic(arena'), Stands(arena'), pratt' = NoCall, status' = "run",
         NEW others, IsSeq(others), DOMAIN others = DOMAIN rules,
         \A i \in DOMAIN rules :
           others[i] = IF i \in {Below, Chain[Height - 2]}
                       THEN [rules[i] EXCEPT !.node = node] ELSE rules[i],
         NEW next, Pop([rules[cur] EXCEPT !.node = node], others, next)
  PROVE  ChainInv'
<1> DEFINE P == rules[cur]
           R == [P EXCEPT !.node = node]
           G == Chain[Height - 2]
           E == Below
           p == Height - 2
<1>1. /\ p \in 1..(Height - 1) /\ p + 1 = Height - 1 /\ (Height - 1) + 1 = Height
      /\ Chain[Height - 1] = E /\ rules[E].parent = G
      /\ rules[E].name = "expr" /\ rules[E].child = cur /\ rules[E].state = "close"
      /\ rules[G].name = "val" /\ rules[G].attach = Undefined
      /\ G \in DOMAIN rules /\ E \in DOMAIN rules /\ G < E /\ E < cur
      /\ G # E /\ G # cur /\ E # cur /\ cur # 0
      /\ Marks(arena, rules, Chain, Height - 1) = Lines
      /\ Marks(arena, rules, Chain, p) = Lines
      /\ Above(rules, Chain, Height - 1, "val")
  BY ParenPlace
<1>2. P.name = "paren" /\ Formed(P)
  BY ParenPasses
<1>3. R.name = "paren" /\ R.node = node
  BY <1>2 DEF Formed
<1>4. /\ DOMAIN rules' = DOMAIN rules /\ rules'[cur] = R
      /\ \A r \in DOMAIN rules \ {cur} : rules'[r] = others[r]
      /\ Height > 1 /\ cur' = E /\ cur' # 0 /\ Len(Chain') = Height - 1
      /\ \A i \in 1..(Height - 1) : Chain'[i] = Chain[i]
  BY PopShape
<1>5. /\ Height \in Nat \ {0} /\ Len(Chain) = Height /\ Sorted(rules, Chain)
      /\ Frames(arena, rules, Chain) /\ \A r \in DOMAIN rules : Formed(rules[r])
  BY ChainIs
<1> HIDE DEF R
<1>6. ASSUME NEW r \in {E, G}
      PROVE  /\ rules'[r].node = node /\ Alike(rules'[r], rules[r])
  <2>1. rules'[r] = [rules[r] EXCEPT !.node = node] /\ Formed(rules[r])
    BY <1>1, <1>4, <1>5
  <2>2. QED
    BY <2>1 DEF Formed, Alike
<1>7. \A r \in DOMAIN rules \ {cur, E, G} : rules'[r] = rules[r]
  BY <1>4
<1>8. \A r \in DOMAIN rules : r \in DOMAIN rules' /\ rules'[r].name = rules[r].name
  BY <1>2, <1>3, <1>4, <1>6, <1>7 DEF Alike
<1>9. Refilled(arena, rules, rules', Chain, p, G)
  BY <1>1, <1>6 DEF Refilled
<1>10. \A r \in DOMAIN rules : r < E =>
         /\ Alike(rules'[r], rules[r])
         /\ rules'[r].node = rules[r].node \/ Refilled(arena, rules, rules', Chain, p, r)
  <2>1. \A r \in DOMAIN rules : r < E => r # E /\ r # cur
    <3>1. E \in Nat /\ cur \in Nat /\ DOMAIN rules \subseteq Nat
      BY <1>1, <1>5, ChainIs DEF Sorted
    <3>2. QED
      BY <1>1, <3>1
  <2>2. QED
    BY <1>6, <1>7, <1>9, <2>1 DEF Alike
<1>11. Leaves(arena, arena', rules, rules', Chain, Chain', p)
  <2>1. \A i \in 1..p : i \in 1..(Height - 1)
    BY <1>1, <1>5
  <2>2. p \in Nat /\ p < Len(Chain) /\ Chain[p + 1] = E
    BY <1>1, <1>5
  <2>3. \A i \in 1..p : Chain'[i] = Chain[i]
    BY <1>4, <2>1
  <2>4. \A i \in 1..p : Awaits(rules, Chain[i]) => Steady(arena, arena', rules[Chain[i]].node)
    BY <2>1 DEF Stands
  <2> HIDE DEF p, E
  <2>5. QED
    BY <1>8, <1>10, <2>2, <2>3, <2>4 DEF Leaves
<1>12. Chain'[p + 1] = Chain[p + 1] /\ Chain[p + 1] = E /\ Len(Chain') = p + 1
       /\ Chain'[p] = G /\ Chain[p] = G
  BY <1>1, <1>4, <1>5
<1>13. Pushed(arena', rules', Chain', p)
  <2>1. /\ rules'[Chain[p + 1]].name = rules[Chain[p + 1]].name
        /\ rules'[Chain[p + 1]].parent = rules[Chain[p + 1]].parent
        /\ Beyond(Marks(arena, rules, Chain, p), rules'[Chain[p + 1]].node)
        /\ p \in 1..p
    BY <1>1, <1>6, <1>12 DEF Alike
  <2> HIDE DEF p
  <2>2. QED
    BY <1>5, <1>11, <1>12, <2>1, LeftPushed
<1>14. Frames(arena', rules', Chain')
  <2> HIDE DEF p
  <2>1. QED
    BY <1>5, <1>11, <1>12, <1>13, LeftTop
<1>15. /\ Marks(arena', rules', Chain', Height - 1) = Lines
       /\ Above(rules', Chain', Height - 1, "val")
  <2>1. p + 1 \in 1..(p + 1) /\ p + 1 = Height - 1
    BY <1>1
  <2>2. /\ Marks(arena', rules', Chain', p + 1) = Marks(arena, rules, Chain, p + 1)
        /\ \A name : Above(rules', Chain', p + 1, name) <=> Above(rules, Chain, p + 1, name)
    <3> HIDE DEF p
    <3>1. QED
      BY <1>5, <1>11, <2>1, LeftMarks
  <2>3. QED
    BY <1>1, <2>1, <2>2
<1>16. /\ Chain'[Height - 1] = E /\ Chain'[(Height - 1) - 1] = G
       /\ rules'[E].child = cur /\ rules'[E].name = "expr" /\ rules'[E].state = "close"
       /\ rules'[E].node = node /\ rules'[G].node = node
       /\ rules'[cur].name = "paren" /\ rules'[cur].node = node
  <2>1. (Height - 1) - 1 = p /\ p + 1 = Height - 1
    BY <1>1
  <2>2. Chain'[Height - 1] = E /\ Chain'[(Height - 1) - 1] = G
    BY <1>12, <2>1
  <2>3. QED
    BY <1>1, <1>3, <1>4, <1>6, <2>2 DEF Alike
<1>17. TopExprClose(arena', rules', Chain', Height - 1, t0')
  BY <1>1, <1>15, <1>16 DEF TopExprClose
<1>18. TopHolds(arena', rules', Chain', t0', pratt')
  BY <1>4, <1>16, <1>17 DEF TopHolds
<1>19. QED
  BY <1>4, <1>14, <1>18, ChainNext

LEMMA ParenClosedChain ==
  ASSUME Running, ParenClosed
  PROVE  ChainInv'
<1> DEFINE P      == rules[cur]
           parent == P.parent
           grand  == rules[parent].parent
           own    == Closes(t0) \in P.depth
           terms  == ParenTerms(P, grand)
           node   == IF own THEN Newest(arena') ELSE ParenInner(P)
           others == [i \in DOMAIN rules |->
                        IF i \in {parent, grand} THEN [rules[i] EXCEPT !.node = node] ELSE rules[i]]
<1>1. /\ Passing("paren", "close") /\ AcceptsCloser(P) /\ pratt' = pratt
      /\ arena' = IF own THEN NewNode(arena, ParenOp(Closes(t0)), at, terms) ELSE arena
      /\ Pop([P EXCEPT !.node = node], others, t1)
  BY DEF ParenClosed
<1>2. pratt' = NoCall /\ parent = Below /\ grand = Chain[Height - 2]
  BY <1>1, ParenPasses, ParenPlace
<1>3. /\ Beyond(Lines, ParenInner(P))
      /\ ~own => ParenInner(P) # Undefined
  BY <1>1, ParenHolds
<1>4. Known(arena, terms) /\ \A i \in DOMAIN terms : Beyond(Lines, terms[i])
  BY <1>1, ParenHolds
<1>5. Acyclic(arena') /\ Stands(arena') /\ node # Undefined /\ Beyond(Lines, node)
  <2>1. CASE own
    <3> DEFINE op == ParenOp(Closes(t0))
    <3>1. Sound(arena) /\ Closed(arena) /\ Acyclic(arena) /\ arena' = NewNode(arena, op, at, terms)
      BY <1>1, <2>1, ArenaClosed DEF Running, ChainInv
    <3> HIDE DEF op, terms
    <3>2. Allocates(arena, arena', op, at, terms)
      BY <3>1, NewNodeAllocates
    <3>3. /\ Newest(arena') = Handle(Len(arena.nodes) + 1) /\ Acyclic(arena')
          /\ \A e : /\ Firm(arena, e)
                    /\ \A j \in DOMAIN terms : Beyond({Mark(arena, e)}, terms[j])
                    => Steady(arena, arena', e)
      BY <1>4, <3>1, <3>2, NewTree
    <3>4. Stands(arena')
      BY <1>4, <3>3, LinesAre DEF Stands, Beyond
    <3>5. node = Handle(Len(arena.nodes) + 1)
      BY <2>1, <3>3
    <3>6. Beyond(Lines, node) /\ node # Undefined
      BY <3>5, NewBeyond DEF Handle, Undefined
    <3>7. QED
      BY <3>3, <3>4, <3>6
  <2>2. CASE ~own
    <3>1. arena' = arena /\ node = ParenInner(P)
      BY <1>1, <2>2
    <3>2. QED
      BY <1>3, <2>2, <3>1, StandsStill DEF Running, ChainInv
  <2>3. QED
    BY <2>1, <2>2
<1>6. CASE status' # "run"
  BY <1>5, <1>6, Halted
<1>7. CASE status' = "run"
  <2> HIDE DEF node
  <2>1. DOMAIN others = DOMAIN rules
    OBVIOUS
  <2>2. IsSeq(others)
    <3> DEFINE S == {others[i] : i \in DOMAIN rules}
    <3>1. Len(rules) \in Nat /\ DOMAIN rules = 1..Len(rules)
      BY ChainIs
    <3>2. others \in [1..Len(rules) -> S]
      BY <3>1
    <3> HIDE DEF others, S
    <3>3. others \in Seq(S)
      BY <3>1, <3>2, SeqDef
    <3>4. QED
      BY <3>3 DEF IsSeq
  <2>3. \A i \in DOMAIN rules :
          others[i] = IF i \in {Below, Chain[Height - 2]}
                      THEN [rules[i] EXCEPT !.node = node] ELSE rules[i]
    BY <1>2
  <2> HIDE DEF others, own, terms
  <2>4. QED
    BY <1>1, <1>2, <1>5, <1>7, <2>1, <2>2, <2>3, ParenHands
<1>8. QED
  BY <1>6, <1>7

(***************************************************************************)
(* No node is part of itself.                                              *)
(***************************************************************************)
LEMMA HaltChain ==
  ASSUME ChainInv, NEW how \in {"error", "base", "cancel"}, Halt(how)
  PROVE  ChainInv'
BY Halted DEF Halt, ChainInv

LEMMA NoTernaryTaken ==
  ASSUME Running
  PROVE  ~ValCloseTernary /\ ~Ternary_ /\ ~TernaryCloseBase /\ ~TernaryCloseElse
<1>1. ~Passing("ternary", "open") /\ ~Passing("ternary", "close")
  BY NeverTernary DEF Running
<1>2. ~ValCloseTernary
  <2>1. t0 \notin Tern0
    BY DEF Running, NoTernaries, Tern0
  <2>2. QED
    BY <2>1, ValCloseChosen DEF ValCloseTernary
<1>3. QED
  BY <1>1, <1>2 DEF Ternary_, TernaryOpenFirst, TernaryOpenStep, TernaryCloseThen, TernaryError,
                    TernaryCloseBase, TernaryCloseElse

LEMMA StepChain ==
  ASSUME TypeInv, NoTernaries, ChainInv, [Next]_vars
  PROVE  ChainInv'
<1>1. CASE UNCHANGED vars
  BY <1>1 DEF vars, ChainInv, Chain, t0, Tok
<1>2. CASE Next /\ status # "run"
  <2>1. UNCHANGED vars
    BY <1>2 DEF Next, Val_, Expr_, Paren_, Ternary_, Base_, Over, Cancel, Passing, Pratting,
       ValOpenPrefix, ValOpenPreval, ValOpenParen, ValOpenValue, ValOpenEnd, ValOpenElsewhere,
       ValCloseTernary, ValCloseOperator, ValCloseChain, ValClosePop, ValCloseBase,
       ExprOpenParen, ExprOpenEmbed, ExprOpenPrior, PrattLooser, PrattDrill, PrattTighter,
       PrattPrefix, ExprCloseReplace, ExprClosePop, ExprCloseEnd, ExprCloseBase,
       ParenOpenEmpty, ParenOpenVal, ParenClosed, ParenError,
       TernaryOpenFirst, TernaryOpenStep, TernaryCloseThen, TernaryError, TernaryCloseBase,
       TernaryCloseElse
  <2>2. QED
    BY <1>1, <2>1
<1>3. CASE Next /\ status = "run"
  <2>1. Running
    BY <1>3 DEF Running
  <2>2. CASE Val_
    <3>1. CASE ValOpenElsewhere
      BY <3>1, HaltChain DEF ValOpenElsewhere
    <3>2. QED
      BY <2>1, <2>2, <3>1, NoTernaryTaken, ValOpenPrefixChain, ValOpenPrevalChain,
         ValOpenParenChain, ValOpenValueChain, ValOpenEndChain, ValCloseOperatorChain,
         ValCloseChainChain, ValClosePopChain DEF Val_
  <2>3. CASE Expr_
    BY <2>1, <2>3, ExprOpenParenChain, ExprOpenEmbedChain, ExprOpenPriorChain, PrattLooserChain,
       PrattDrillChain, PrattTighterChain, PrattPrefixChain, ExprCloseReplaceChain,
       ExprClosePopChain DEF Expr_
  <2>4. CASE Paren_
    <3>1. CASE ParenError
      BY <3>1, HaltChain DEF ParenError
    <3>2. QED
      BY <2>1, <2>4, <3>1, ParenOpenEmptyChain, ParenOpenValChain, ParenClosedChain DEF Paren_
  <2>5. CASE ValCloseBase
    BY <2>5, HaltChain DEF ValCloseBase
  <2>6. CASE ExprCloseBase
    BY <2>1, <2>6, ExprCloseBaseChain
  <2>7. CASE ExprCloseEnd
    BY <2>1, <2>7, ExprCloseEndChain
  <2>8. CASE Cancel
    BY <2>8, HaltChain DEF Cancel
  <2>9. ~Over
    BY <1>3 DEF Over
  <2>10. QED
    BY <1>3, <2>1, <2>2, <2>3, <2>4, <2>5, <2>6, <2>7, <2>8, <2>9, NoTernaryTaken DEF Next, Base_
<1>4. QED
  BY <1>1, <1>2, <1>3

LEMMA InitChain ==
  ASSUME Init
  PROVE  ChainInv
<1>1. /\ arena = EmptyArena /\ rules = <<Rule0>> /\ stack = << >> /\ cur = 1
      /\ pratt = NoCall /\ status = "run"
  BY DEF Init, InitWith
<1>2. Acyclic(arena)
  BY <1>1 DEF Acyclic, EmptyArena
<1>3. Chain = <<1>> /\ Len(Chain) = 1 /\ Chain[1] = 1
  BY <1>1 DEF Chain
<1>4. Frames(arena, rules, Chain)
  BY <1>3 DEF Frames
<1>5. /\ rules[1].name = "val" /\ rules[1].state = "open" /\ rules[1].node = Undefined
      /\ ~rules[1].preval /\ rules[1].child = 0 /\ rules[1].parent = 0
  BY <1>1 DEF Rule0, Rule
<1>6. ValHolds(arena, rules, Chain, 1)
  BY <1>3, <1>5 DEF ValHolds, Above, Beyond, Undefined
<1>7. TopHolds(arena, rules, Chain, t0, pratt)
  BY <1>1, <1>3, <1>5, <1>6 DEF TopHolds, TopVal
<1>8. QED
  BY <1>1, <1>2, <1>4, <1>7 DEF ChainInv

\* In a table without ternaries an expression is a tree: no step of prattify, of a
\* rule's hook or of a paren that closes makes a node part of itself, wherever the
\* operands are missing.
THEOREM AlwaysNoCircle == NoTernaries => (Spec => []NoCircle)
<1> SUFFICES ASSUME NoTernaries PROVE Spec => []NoCircle
  OBVIOUS
<1>1. Init => ChainInv
  BY InitChain
<1>2. TypeInv /\ ChainInv /\ [Next]_vars => ChainInv'
  BY StepChain
<1>3. Spec => []TypeInv
  BY AlwaysTypeInv
<1>4. ChainInv => NoCircle
  BY DEF ChainInv, NoCircle
<1>5. QED
  BY <1>1, <1>2, <1>3, <1>4, PTL DEF Spec
=============================================================================
