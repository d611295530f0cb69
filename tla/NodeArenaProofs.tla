-------------------------- MODULE NodeArenaProofs --------------------------
(***************************************************************************)
(* What every operator of the arena preserves and how far it may change    *)
(* the arena it is given, for any operator, any terms and any NodeLimit.   *)
(***************************************************************************)
EXTENDS NodeArena, SequenceTheorems, FiniteSetTheorems, TLAPS

IsSeq(s) == \E S : s \in Seq(S)

IsNode(n) ==
  /\ n = [op |-> n.op, token |-> n.token, terms |-> n.terms,
          root |-> n.root, size |-> n.size]
  /\ n.root \in Nat /\ n.size \in Nat \ {0}

\* The shape of an arena, and roots that are nodes and their own roots.
WellRooted(a) ==
  /\ a = [nodes |-> a.nodes, over_limit |-> a.over_limit]
  /\ a.over_limit \in BOOLEAN
  /\ IsSeq(a.nodes)
  /\ \A i \in DOMAIN a.nodes :
        /\ IsNode(a.nodes[i])
        /\ a.nodes[i].root \in DOMAIN a.nodes
        /\ a.nodes[a.nodes[i].root].root = a.nodes[i].root

\* The inductive invariant: the shape, and the accounting.
Sound(a) == WellRooted(a) /\ Flagged(a) /\ OwnCounted(a)

\* What no operator may do: lose a node, move its root, lower a count or
\* clear the flag.
Extends(a, b) ==
  /\ \A i \in DOMAIN a.nodes :
        /\ i \in DOMAIN b.nodes
        /\ b.nodes[i].root = a.nodes[i].root
        /\ b.nodes[i].size >= a.nodes[i].size
  /\ a.over_limit => b.over_limit

(***************************************************************************)
(* Sequences of anything.                                                  *)
(***************************************************************************)
LEMMA SeqShape ==
  ASSUME NEW s, IsSeq(s)
  PROVE  Len(s) \in Nat /\ DOMAIN s = 1..Len(s)
BY LenProperties DEF IsSeq

LEMMA SeqAppend ==
  ASSUME NEW s, IsSeq(s), NEW x
  PROVE  /\ IsSeq(Append(s, x))
         /\ Len(Append(s, x)) = Len(s) + 1
         /\ DOMAIN Append(s, x) = 1..(Len(s) + 1)
         /\ \A i \in 1..Len(s) : Append(s, x)[i] = s[i]
         /\ Append(s, x)[Len(s) + 1] = x
<1>1. PICK S : s \in Seq(S)
  BY DEF IsSeq
<1>2. s \in Seq(S \cup {x})
  BY <1>1, SeqMonotonic
<1>3. Append(s, x) \in Seq(S \cup {x})
  BY <1>2, AppendProperties
<1>4. QED
  BY <1>2, <1>3, AppendProperties, LenProperties DEF IsSeq

LEMMA SeqExcept ==
  ASSUME NEW s, IsSeq(s), NEW i \in DOMAIN s, NEW x
  PROVE  /\ IsSeq([s EXCEPT ![i] = x])
         /\ DOMAIN [s EXCEPT ![i] = x] = DOMAIN s
         /\ \A j \in DOMAIN s : [s EXCEPT ![i] = x][j] = IF j = i THEN x ELSE s[j]
<1>1. PICK S : s \in Seq(S)
  BY DEF IsSeq
<1>2. s \in Seq(S \cup {x})
  BY <1>1, SeqMonotonic
<1>3. i \in 1..Len(s)
  BY SeqShape
<1>4. [s EXCEPT ![i] = x] \in Seq(S \cup {x})
  BY <1>2, <1>3, ExceptSeq
<1>5. QED
  BY <1>2, <1>4, SeqShape DEF IsSeq

(***************************************************************************)
(* Extends is reflexive and transitive.                                    *)
(***************************************************************************)
LEMMA ExtendsSelf == ASSUME NEW a, Sound(a) PROVE Extends(a, a)
BY DEF Extends, Sound, WellRooted, IsNode

LEMMA ExtendsTrans ==
  ASSUME NEW a, NEW b, NEW c, Sound(a), Sound(b), Sound(c),
         Extends(a, b), Extends(b, c)
  PROVE  Extends(a, c)
BY DEF Extends, Sound, WellRooted, IsNode

(***************************************************************************)
(* Updating one node in place.                                             *)
(***************************************************************************)
LEMMA UpdateSound ==
  ASSUME NEW a, Sound(a), NEW i \in DOMAIN a.nodes, NEW n, IsNode(n),
         n.root = a.nodes[i].root, n.size >= a.nodes[i].size,
         NEW over \in BOOLEAN, a.over_limit => over, n.size > NodeLimit => over,
         NEW b, b = [nodes |-> [a.nodes EXCEPT ![i] = n], over_limit |-> over]
  PROVE  Sound(b) /\ Extends(a, b) /\ DOMAIN b.nodes = DOMAIN a.nodes
<1>1. /\ IsSeq(b.nodes) /\ DOMAIN b.nodes = DOMAIN a.nodes
      /\ \A j \in DOMAIN a.nodes : b.nodes[j] = IF j = i THEN n ELSE a.nodes[j]
  BY SeqExcept DEF Sound, WellRooted
<1>2. \A j \in DOMAIN a.nodes : /\ b.nodes[j].root = a.nodes[j].root
                                /\ b.nodes[j].size >= a.nodes[j].size
                                /\ IsNode(b.nodes[j]) /\ IsNode(a.nodes[j])
  BY <1>1 DEF Sound, WellRooted, IsNode
<1>3. WellRooted(b)
  BY <1>1, <1>2 DEF Sound, WellRooted
<1>4. Flagged(b)
  BY <1>1, <1>2 DEF Sound, Flagged
<1>5. \A r : Family(b, r) = Family(a, r)
  BY <1>1, <1>2 DEF Family
<1>6. \A j \in DOMAIN a.nodes : Cardinality(Family(a, j)) \in Nat
  <2>1. Len(a.nodes) \in Nat /\ DOMAIN a.nodes = 1..Len(a.nodes)
    BY SeqShape DEF Sound, WellRooted
  <2>2. IsFiniteSet(1..Len(a.nodes))
    BY <2>1, FS_Interval
  <2>3. \A j : Family(a, j) \in SUBSET (1..Len(a.nodes))
    BY <2>1 DEF Family
  <2>4. QED
    BY <2>2, <2>3, FS_Subset, FS_CardinalityType
<1>7. OwnCounted(b)
  <2> SUFFICES ASSUME NEW j \in DOMAIN b.nodes
               PROVE  Cardinality(Family(b, b.nodes[j].root)) <= b.nodes[b.nodes[j].root].size
    BY DEF OwnCounted
  <2> DEFINE r == a.nodes[j].root
  <2>1. r \in DOMAIN a.nodes /\ Cardinality(Family(a, r)) <= a.nodes[r].size
    BY <1>1 DEF Sound, WellRooted, OwnCounted
  <2>2. a.nodes[r].size \in Nat /\ b.nodes[r].size \in Nat /\ b.nodes[r].size >= a.nodes[r].size
    BY <2>1, <1>2 DEF IsNode
  <2>3. Cardinality(Family(a, r)) \in Nat
    BY <2>1, <1>6
  <2>4. b.nodes[j].root = r /\ Family(b, r) = Family(a, r)
    BY <1>1, <1>2, <1>5
  <2> HIDE DEF r
  <2>5. QED
    BY <2>1, <2>2, <2>3, <2>4
<1>8. QED
  BY <1>1, <1>2, <1>3, <1>4, <1>7 DEF Sound, Extends

(***************************************************************************)
(* Accounting.                                                             *)
(***************************************************************************)
LEMMA GrowSound ==
  ASSUME NEW a, Sound(a), NEW v, NEW count \in Nat
  PROVE  /\ Sound(Grow(a, v, count)) /\ Extends(a, Grow(a, v, count))
         /\ DOMAIN Grow(a, v, count).nodes = DOMAIN a.nodes
<1>1. CASE ~Live(a, v)
  BY <1>1, ExtendsSelf DEF Grow
<1>2. CASE Live(a, v)
  <2> DEFINE r    == RootOf(a, v)
             size == a.nodes[r].size + count
             n    == [a.nodes[r] EXCEPT !.size = size]
             over == a.over_limit \/ size > NodeLimit
  <2>1. /\ r \in DOMAIN a.nodes /\ IsNode(a.nodes[r]) /\ a.over_limit \in BOOLEAN
    BY <1>2 DEF Live, RootOf, Sound, WellRooted
  <2>2. size \in Nat \ {0} /\ size >= a.nodes[r].size
    BY <2>1 DEF IsNode
  <2>3. IsNode(n) /\ n.root = a.nodes[r].root /\ n.size = size
    BY <2>1, <2>2 DEF IsNode
  <2>4. Grow(a, v, count) = [nodes |-> [a.nodes EXCEPT ![r] = n], over_limit |-> over]
    BY <1>2 DEF Grow
  <2>5. over \in BOOLEAN
    BY <2>1
  <2> HIDE DEF r, n, over, size
  <2>6. a.over_limit => over
    BY DEF over
  <2>7. n.size > NodeLimit => over
    BY <2>3 DEF over
  <2>8. QED
    BY <2>1, <2>2, <2>3, <2>4, <2>5, <2>6, <2>7, UpdateSound
<1>3. QED
  BY <1>1, <1>2

LEMMA AdoptSound ==
  ASSUME NEW a, Sound(a), NEW container, NEW term
  PROVE  LET b == Adopt(a, container, term)
         IN  Sound(b) /\ Extends(a, b) /\ DOMAIN b.nodes = DOMAIN a.nodes
<1>1. CASE Adopt(a, container, term) = a
  BY <1>1, ExtendsSelf
<1>2. CASE Adopt(a, container, term) # a
  <2>1. /\ Live(a, term)
        /\ Adopt(a, container, term)
             = Grow(a, container, a.nodes[RootOf(a, term)].size)
    BY <1>2 DEF Adopt
  <2>2. a.nodes[RootOf(a, term)].size \in Nat
    BY <2>1 DEF Live, RootOf, Sound, WellRooted, IsNode
  <2>3. QED
    BY <2>1, <2>2, GrowSound
<1>3. QED
  BY <1>1, <1>2

LEMMA AdoptAllSound ==
  ASSUME NEW a, Sound(a), NEW container, NEW terms
  PROVE  LET b == AdoptAll(a, container, terms)
         IN  Sound(b) /\ Extends(a, b) /\ DOMAIN b.nodes = DOMAIN a.nodes
<1> DEFINE b1 == Adopt(a, container, Slot(terms, 1))
           b2 == Adopt(b1, container, Slot(terms, 2))
           b3 == Adopt(b2, container, Slot(terms, 3))
<1>1. Sound(b1) /\ Extends(a, b1) /\ DOMAIN b1.nodes = DOMAIN a.nodes
  BY AdoptSound
<1>2. Sound(b2) /\ Extends(b1, b2) /\ DOMAIN b2.nodes = DOMAIN b1.nodes
  BY <1>1, AdoptSound
<1>3. Sound(b3) /\ Extends(b2, b3) /\ DOMAIN b3.nodes = DOMAIN b2.nodes
  BY <1>2, AdoptSound
<1>4. b3 = AdoptAll(a, container, terms)
  BY DEF AdoptAll
<1> HIDE DEF b1, b2, b3
<1>5. Extends(a, b3)
  BY <1>1, <1>2, <1>3, ExtendsTrans
<1>6. QED
  BY <1>1, <1>2, <1>3, <1>4, <1>5

(***************************************************************************)
(* Allocating: a node that starts an expression is its whole family, one   *)
(* that joins an expression is counted against it in the same step.        *)
(***************************************************************************)
LEMMA FamilyFinite ==
  ASSUME NEW a, IsSeq(a.nodes), NEW r
  PROVE  IsFiniteSet(Family(a, r)) /\ Cardinality(Family(a, r)) \in Nat
<1>1. Len(a.nodes) \in Nat /\ DOMAIN a.nodes = 1..Len(a.nodes)
  BY SeqShape
<1>2. IsFiniteSet(1..Len(a.nodes))
  BY <1>1, FS_Interval
<1>3. Family(a, r) \in SUBSET (1..Len(a.nodes))
  BY <1>1 DEF Family
<1>4. QED
  BY <1>2, <1>3, FS_Subset, FS_CardinalityType

LEMMA AddedShape ==
  ASSUME NEW a, Sound(a), NEW op, NEW token, NEW terms, NEW root
  PROVE  Added(a, op, token, terms, root)
           = [nodes |-> Append(a.nodes, [op |-> op, token |-> token, terms |-> terms,
                                         root |-> root, size |-> 1]),
              over_limit |-> a.over_limit]
<1>1. a = [nodes |-> a.nodes, over_limit |-> a.over_limit]
  BY DEF Sound, WellRooted
<1>2. QED
  BY <1>1 DEF Added

LEMMA SizedNode ==
  ASSUME NEW n, IsNode(n), NEW size \in Nat \ {0}
  PROVE  LET m == [n EXCEPT !.size = size]
         IN  IsNode(m) /\ m.root = n.root /\ m.size = size
BY DEF IsNode

LEMMA StartedSound ==
  ASSUME NEW a, Sound(a), NEW op, NEW token, NEW terms
  PROVE  LET b == Added(a, op, token, terms, Len(a.nodes) + 1)
         IN  Sound(b) /\ Extends(a, b)
<1> DEFINE len  == Len(a.nodes)
           node == [op |-> op, token |-> token, terms |-> terms,
                    root |-> len + 1, size |-> 1]
           b    == Added(a, op, token, terms, len + 1)
<1>1. /\ len \in Nat /\ DOMAIN a.nodes = 1..len /\ IsSeq(a.nodes)
      /\ a = [nodes |-> a.nodes, over_limit |-> a.over_limit] /\ a.over_limit \in BOOLEAN
  BY SeqShape DEF Sound, WellRooted
<1>2. IsNode(node) /\ node.root = len + 1 /\ node.size = 1
  BY <1>1 DEF IsNode
<1>3. b = [nodes |-> Append(a.nodes, node), over_limit |-> a.over_limit]
  BY <1>1 DEF Added
<1> HIDE DEF node, len, b
<1>4. /\ b.nodes = Append(a.nodes, node) /\ b.over_limit = a.over_limit
      /\ b = [nodes |-> b.nodes, over_limit |-> b.over_limit]
      /\ IsSeq(b.nodes) /\ DOMAIN b.nodes = 1..(len + 1)
      /\ \A i \in 1..len : b.nodes[i] = a.nodes[i]
      /\ b.nodes[len + 1] = node
  BY <1>1, <1>3, SeqAppend DEF len
<1>0. /\ len \in Nat /\ DOMAIN a.nodes = 1..len /\ DOMAIN b.nodes = 1..(len + 1)
      /\ \A i \in 1..len : b.nodes[i] = a.nodes[i]
      /\ b.over_limit = a.over_limit
  BY <1>1, <1>4
<1>5. WellRooted(b)
  BY <1>1, <1>2, <1>4 DEF Sound, WellRooted
<1>6. Flagged(b)
  <2>1. \A i \in 1..len : b.nodes[i].size > NodeLimit => b.over_limit
    BY <1>1, <1>4 DEF Sound, Flagged
  <2>2. ~(b.nodes[len + 1].size > NodeLimit)
    BY <1>2, <1>4, NodeLimitAssumption
  <2>3. QED
    BY <1>1, <1>4, <2>1, <2>2 DEF Flagged
<1>7. \A i \in 1..len : a.nodes[i].root \in 1..len /\ IsNode(a.nodes[i])
  BY <1>1 DEF Sound, WellRooted
<1>8. \A r \in 1..len : Family(b, r) = Family(a, r)
  BY <1>1, <1>2, <1>4 DEF Family
<1>9. Family(b, len + 1) = {len + 1}
  BY <1>1, <1>2, <1>4, <1>7 DEF Family
<1>10. OwnCounted(b)
  <2> SUFFICES ASSUME NEW i \in DOMAIN b.nodes
               PROVE  Cardinality(Family(b, b.nodes[i].root)) <= b.nodes[b.nodes[i].root].size
    BY DEF OwnCounted
  <2>1. CASE i \in 1..len
    <3> DEFINE r == a.nodes[i].root
    <3>1. Cardinality(Family(a, r)) <= a.nodes[r].size /\ r \in 1..len
      BY <2>1, <1>1, <1>7 DEF Sound, OwnCounted
    <3>2. b.nodes[i].root = r /\ Family(b, r) = Family(a, r) /\ b.nodes[r] = a.nodes[r]
      BY <2>1, <3>1, <1>4, <1>8
    <3>3. QED
      BY <3>1, <3>2
  <2>2. CASE i = len + 1
    <3>1. b.nodes[i].root = len + 1 /\ b.nodes[len + 1].size = 1
      BY <2>2, <1>2, <1>4
    <3>2. Cardinality(Family(b, len + 1)) = 1
      BY <1>9, FS_Singleton
    <3>3. QED
      BY <3>1, <3>2
  <2>3. i \in 1..len \/ i = len + 1
    BY <1>0
  <2>4. QED
    BY <2>1, <2>2, <2>3
<1>11. Extends(a, b)
  <2>1. \A i \in 1..len : a.nodes[i].size \in Nat
    BY <1>7 DEF IsNode
  <2>2. QED
    BY <1>0, <2>1 DEF Extends
<1>12. QED
  BY <1>5, <1>6, <1>10, <1>11 DEF Sound, b, len

LEMMA NewNodeSound ==
  ASSUME NEW a, Sound(a), NEW op, NEW token, NEW terms
  PROVE  LET b == NewNode(a, op, token, terms)
         IN  Sound(b) /\ Extends(a, b)
<1> DEFINE b1 == Added(a, op, token, terms, Len(a.nodes) + 1)
           b2 == AdoptAll(b1, Newest(b1), terms)
<1>1. Sound(b1) /\ Extends(a, b1)
  BY StartedSound
<1>2. Sound(b2) /\ Extends(b1, b2)
  BY <1>1, AdoptAllSound
<1>3. NewNode(a, op, token, terms) = b2
  BY DEF NewNode
<1> HIDE DEF b1, b2
<1>4. QED
  BY <1>1, <1>2, <1>3, ExtendsTrans

LEMMA JoinedSound ==
  ASSUME NEW a, Sound(a), NEW op, NEW token, NEW terms, NEW r \in DOMAIN a.nodes,
         a.nodes[r].root = r
  PROVE  LET b == Added(a, op, token, terms, r)
             c == Grow(b, Newest(b), 1)
         IN  /\ Sound(c) /\ Extends(a, c)
             /\ c.nodes[Len(a.nodes) + 1].root = r
             /\ c.nodes[r].size = a.nodes[r].size + 1
<1> DEFINE len  == Len(a.nodes)
           node == [op |-> op, token |-> token, terms |-> terms, root |-> r, size |-> 1]
           size == a.nodes[r].size + 1
           grown == [a.nodes[r] EXCEPT !.size = size]
           b    == Added(a, op, token, terms, r)
           c    == Grow(b, Newest(b), 1)
<1>1. /\ len \in Nat /\ DOMAIN a.nodes = 1..len /\ IsSeq(a.nodes)
      /\ a = [nodes |-> a.nodes, over_limit |-> a.over_limit] /\ a.over_limit \in BOOLEAN
      /\ r \in 1..len
  BY SeqShape DEF Sound, WellRooted
<1>2. \A i \in 1..len : /\ IsNode(a.nodes[i]) /\ a.nodes[i].root \in 1..len
                        /\ a.nodes[i].size \in Nat
                        /\ a.nodes[a.nodes[i].root].root = a.nodes[i].root
  BY <1>1 DEF Sound, WellRooted, IsNode
<1>3. IsNode(node) /\ node.root = r /\ node.size = 1
  BY <1>1 DEF IsNode
<1>4. /\ IsNode(grown) /\ grown.root = r /\ grown.size = size
      /\ size \in Nat \ {0} /\ size = a.nodes[r].size + 1
  <2>1. IsNode(a.nodes[r]) /\ a.nodes[r].size \in Nat
    BY <1>1, <1>2
  <2>2. size \in Nat \ {0}
    BY <2>1
  <2> HIDE DEF size
  <2>3. IsNode(grown) /\ grown.root = a.nodes[r].root /\ grown.size = size
    BY <2>1, <2>2, SizedNode
  <2>4. QED
    BY <2>2, <2>3 DEF size
<1>5. b = [nodes |-> Append(a.nodes, node), over_limit |-> a.over_limit]
  BY AddedShape
<1>6. /\ IsSeq(b.nodes) /\ DOMAIN b.nodes = 1..(len + 1) /\ Len(b.nodes) = len + 1
      /\ \A i \in 1..len : b.nodes[i] = a.nodes[i]
      /\ b.nodes[len + 1] = node /\ b.over_limit = a.over_limit
  <2> HIDE DEF node
  <2>1. b.nodes = Append(a.nodes, node) /\ b.over_limit = a.over_limit
    BY <1>5
  <2>2. QED
    BY <1>1, <2>1, SeqAppend
<1>7. /\ Live(b, Newest(b)) /\ RootOf(b, Newest(b)) = r /\ b.nodes[r] = a.nodes[r]
  BY <1>1, <1>3, <1>6 DEF Live, RootOf, Newest, Handle
<1>8. c = [nodes      |-> [b.nodes EXCEPT ![r] = grown],
           over_limit |-> b.over_limit \/ size > NodeLimit]
  BY <1>7 DEF Grow
<1> HIDE DEF node, size, grown, b, c
<1>9. /\ c = [nodes |-> c.nodes, over_limit |-> c.over_limit]
      /\ c.nodes = [b.nodes EXCEPT ![r] = grown]
      /\ c.over_limit = (a.over_limit \/ size > NodeLimit)
  BY <1>6, <1>8
<1>10. /\ IsSeq(c.nodes) /\ DOMAIN c.nodes = 1..(len + 1)
       /\ \A i \in 1..len : c.nodes[i] = IF i = r THEN grown ELSE a.nodes[i]
       /\ c.nodes[len + 1] = node
  <2>1. r \in DOMAIN b.nodes /\ r # len + 1
    BY <1>1, <1>6
  <2>2. /\ IsSeq(c.nodes) /\ DOMAIN c.nodes = DOMAIN b.nodes
        /\ \A i \in DOMAIN b.nodes : c.nodes[i] = IF i = r THEN grown ELSE b.nodes[i]
    BY <1>6, <1>9, <2>1, SeqExcept
  <2>3. QED
    BY <1>1, <1>6, <2>1, <2>2
<1>11. \A i \in 1..len : /\ IsNode(c.nodes[i]) /\ c.nodes[i].root = a.nodes[i].root
                         /\ c.nodes[i].size >= a.nodes[i].size
                         /\ c.nodes[i].size \in Nat
  <2> TAKE i \in 1..len
  <2>1. CASE i = r
    <3>1. c.nodes[i] = grown /\ a.nodes[i].root = r
      BY <2>1, <1>10
    <3>2. a.nodes[i].size \in Nat /\ size = a.nodes[i].size + 1
      BY <2>1, <1>2, <1>4
    <3>3. QED
      BY <3>1, <3>2, <1>4
  <2>2. CASE i # r
    BY <2>2, <1>2, <1>10
  <2>3. QED
    BY <2>1, <2>2
<1>12. \A i \in DOMAIN c.nodes : i \in 1..len \/ i = len + 1
  BY <1>1, <1>10
<1>13. WellRooted(c)
  <2>1. \A i \in 1..len : /\ c.nodes[i].root \in DOMAIN c.nodes
                          /\ c.nodes[c.nodes[i].root].root = c.nodes[i].root
    BY <1>1, <1>2, <1>10, <1>11
  <2>2. c.nodes[len + 1].root = r /\ c.nodes[r].root = r /\ r \in DOMAIN c.nodes
    BY <1>1, <1>3, <1>4, <1>10
  <2>3. c.over_limit \in BOOLEAN
    BY <1>9
  <2>4. IsNode(c.nodes[len + 1])
    BY <1>3, <1>10
  <2>5. QED
    BY <1>9, <1>10, <1>11, <1>12, <2>1, <2>2, <2>3, <2>4 DEF WellRooted
<1>14. Flagged(c)
  <2>1. ASSUME NEW i \in 1..len, c.nodes[i].size > NodeLimit PROVE c.over_limit
    <3>1. CASE i = r
      <4>1. c.nodes[i] = grown
        BY <3>1, <1>10
      <4>2. size > NodeLimit
        BY <4>1, <2>1, <1>4
      <4>3. QED
        BY <4>2, <1>9
    <3>2. CASE i # r
      BY <2>1, <3>2, <1>1, <1>9, <1>10 DEF Sound, Flagged
    <3>3. QED
      BY <3>1, <3>2
  <2>2. ~(c.nodes[len + 1].size > NodeLimit)
    BY <1>3, <1>10, NodeLimitAssumption
  <2>3. QED
    BY <1>12, <2>1, <2>2 DEF Flagged
<1>15. Family(c, r) = Family(a, r) \cup {len + 1}
  BY <1>1, <1>3, <1>10, <1>11, <1>12 DEF Family
<1>16. \A k \in 1..len : k # r => Family(c, k) = Family(a, k)
  BY <1>1, <1>3, <1>10, <1>11, <1>12 DEF Family
<1>17. \A k \in 1..len : Cardinality(Family(a, k)) <= a.nodes[k].size \/ a.nodes[k].root # k
  BY <1>1 DEF Sound, OwnCounted
<1>18. Cardinality(Family(c, r)) <= c.nodes[r].size
  <2>1. Cardinality(Family(a, r)) \in Nat /\ IsFiniteSet(Family(a, r))
    BY <1>1, FamilyFinite
  <2>2. Cardinality(Family(c, r)) <= Cardinality(Family(a, r)) + 1
    <3>1. Cardinality(Family(a, r) \cup {len + 1})
            = IF len + 1 \in Family(a, r) THEN Cardinality(Family(a, r))
              ELSE Cardinality(Family(a, r)) + 1
      BY <2>1, FS_AddElement
    <3>2. QED
      BY <2>1, <3>1, <1>15
  <2>3. Cardinality(Family(c, r)) \in Nat
    BY <1>10, FamilyFinite
  <2>4. c.nodes[r].size = a.nodes[r].size + 1 /\ a.nodes[r].size \in Nat
    BY <1>1, <1>2, <1>4, <1>10
  <2>5. Cardinality(Family(a, r)) <= a.nodes[r].size
    BY <1>1, <1>17
  <2>6. QED
    BY <2>1, <2>2, <2>3, <2>4, <2>5
<1>19. OwnCounted(c)
  <2> SUFFICES ASSUME NEW i \in DOMAIN c.nodes
               PROVE  Cardinality(Family(c, c.nodes[i].root)) <= c.nodes[c.nodes[i].root].size
    BY DEF OwnCounted
  <2>1. CASE c.nodes[i].root = r
    BY <2>1, <1>18
  <2>2. CASE c.nodes[i].root # r
    <3> DEFINE k == a.nodes[i].root
    <3>1. i \in 1..len /\ c.nodes[i].root = k /\ k # r
      BY <2>2, <1>3, <1>10, <1>11, <1>12
    <3>2. k \in 1..len /\ a.nodes[k].root = k
      BY <3>1, <1>2
    <3> HIDE DEF k
    <3>3. Family(c, k) = Family(a, k) /\ c.nodes[k] = a.nodes[k]
      BY <3>1, <3>2, <1>10, <1>16
    <3>4. QED
      BY <3>1, <3>2, <3>3, <1>17
  <2>3. QED
    BY <2>1, <2>2
<1>20. Extends(a, c)
  BY <1>1, <1>9, <1>10, <1>11 DEF Extends
<1>21. c.nodes[len + 1].root = r /\ c.nodes[r].size = a.nodes[r].size + 1
  BY <1>1, <1>3, <1>4, <1>10
<1>22. QED
  BY <1>13, <1>14, <1>19, <1>20, <1>21 DEF Sound, b, c

LEMMA NewNodeUnderSound ==
  ASSUME NEW a, Sound(a), NEW op, NEW token, NEW terms, NEW under
  PROVE  LET b == NewNodeUnder(a, op, token, terms, under)
         IN  /\ Sound(b) /\ Extends(a, b)
             /\ Live(a, under) =>
                  /\ b.nodes[Len(a.nodes) + 1].root = RootOf(a, under)
                  /\ b.nodes[RootOf(a, under)].size > a.nodes[RootOf(a, under)].size
<1> DEFINE root == IF Live(a, under) THEN RootOf(a, under) ELSE Len(a.nodes) + 1
           b    == Added(a, op, token, terms, root)
           c    == Grow(b, Newest(b), 1)
           d    == AdoptAll(c, Newest(b), terms)
<1>1. Live(a, under) =>
        /\ root = RootOf(a, under) /\ root \in DOMAIN a.nodes
        /\ a.nodes[root].root = root /\ a.nodes[root].size \in Nat
  BY DEF Live, RootOf, Sound, WellRooted, IsNode
<1>2. /\ Sound(c) /\ Extends(a, c)
      /\ Live(a, under) => /\ c.nodes[Len(a.nodes) + 1].root = root
                           /\ c.nodes[root].size = a.nodes[root].size + 1
  <2>1. CASE Live(a, under)
    <3> HIDE DEF root
    <3>1. QED
      BY <1>1, <2>1, JoinedSound
  <2>2. CASE ~Live(a, under)
    <3>1. Sound(b) /\ Extends(a, b)
      BY <2>2, StartedSound
    <3> HIDE DEF b
    <3>2. Sound(c) /\ Extends(b, c)
      BY <3>1, GrowSound
    <3> HIDE DEF c
    <3>3. QED
      BY <2>2, <3>1, <3>2, ExtendsTrans
  <2>3. QED
    BY <2>1, <2>2
<1>3. NewNodeUnder(a, op, token, terms, under) = d
  BY DEF NewNodeUnder
<1>4. DOMAIN c.nodes = 1..(Len(a.nodes) + 1) /\ Len(a.nodes) \in Nat /\ DOMAIN a.nodes = 1..Len(a.nodes)
  <2>1. Len(a.nodes) \in Nat /\ DOMAIN a.nodes = 1..Len(a.nodes) /\ IsSeq(a.nodes)
    BY SeqShape DEF Sound, WellRooted
  <2>2. DOMAIN b.nodes = 1..(Len(a.nodes) + 1)
    <3> DEFINE node == [op |-> op, token |-> token, terms |-> terms, root |-> root, size |-> 1]
    <3> HIDE DEF root
    <3>1. b.nodes = Append(a.nodes, node)
      <4>1. b = [nodes |-> Append(a.nodes, node), over_limit |-> a.over_limit]
        BY AddedShape
      <4> HIDE DEF b, node
      <4>2. QED
        BY <4>1
    <3> HIDE DEF b, node
    <3>2. QED
      BY <2>1, <3>1, SeqAppend
  <2>3. DOMAIN c.nodes = DOMAIN b.nodes
    BY DEF Grow
  <2>4. QED
    BY <2>1, <2>2, <2>3
<1> HIDE DEF root, b, c
<1>5. Sound(d) /\ Extends(c, d)
  BY <1>2, AdoptAllSound
<1> HIDE DEF d
<1>6. Sound(d) /\ Extends(a, d)
  BY <1>2, <1>5, ExtendsTrans
<1>7. ASSUME Live(a, under)
      PROVE  d.nodes[Len(a.nodes) + 1].root = root /\ d.nodes[root].size > a.nodes[root].size
  <2>1. Len(a.nodes) + 1 \in DOMAIN c.nodes /\ root \in DOMAIN c.nodes
    BY <1>1, <1>4, <1>7
  <2>2. /\ d.nodes[Len(a.nodes) + 1].root = root
        /\ d.nodes[root].size >= c.nodes[root].size
    BY <1>2, <1>5, <1>7, <2>1 DEF Extends
  <2>3. root \in DOMAIN d.nodes /\ d.nodes[root].size \in Nat
    BY <1>5, <2>1 DEF Extends, Sound, WellRooted, IsNode
  <2>4. QED
    BY <1>1, <1>2, <1>7, <2>2, <2>3
<1>8. QED
  BY <1>1, <1>3, <1>6, <1>7

LEMMA DupNodeSound ==
  ASSUME NEW a, Sound(a), NEW v
  PROVE  Sound(DupNode(a, v)) /\ Extends(a, DupNode(a, v))
BY NewNodeUnderSound, ExtendsSelf DEF DupNode

(***************************************************************************)
(* Rewriting: the operator and the terms of a node may change, its place   *)
(* in the accounting does not.                                             *)
(***************************************************************************)
LEMMA SameCountSound ==
  ASSUME NEW a, Sound(a), NEW i \in DOMAIN a.nodes, NEW n, IsNode(n),
         n.root = a.nodes[i].root, n.size = a.nodes[i].size
  PROVE  LET b == [a EXCEPT !.nodes[i] = n]
         IN  Sound(b) /\ Extends(a, b)
<1> DEFINE b == [nodes |-> [a.nodes EXCEPT ![i] = n], over_limit |-> a.over_limit]
<1>1. [a EXCEPT !.nodes[i] = n] = b
  BY DEF Sound, WellRooted
<1>2. /\ n.size >= a.nodes[i].size /\ a.over_limit \in BOOLEAN
      /\ n.size > NodeLimit => a.over_limit
  BY DEF Sound, WellRooted, Flagged, IsNode
<1>3. Sound(b) /\ Extends(a, b)
  BY <1>2, UpdateSound
<1>4. QED
  BY <1>1, <1>3

LEMMA RewrittenSound ==
  ASSUME NEW a, Sound(a), NEW v, NEW op, NEW token, NEW terms
  PROVE  LET b == Rewritten(a, v, op, token, terms)
         IN  Sound(b) /\ Extends(a, b)
<1>1. CASE ~Live(a, v)
  BY <1>1, ExtendsSelf DEF Rewritten
<1>2. CASE Live(a, v)
  <2> DEFINE old == a.nodes[v.id]
             n   == [op |-> op, token |-> token, terms |-> terms,
                     root |-> old.root, size |-> old.size]
  <2>1. v.id \in DOMAIN a.nodes /\ IsNode(old)
    BY <1>2 DEF Live, Sound, WellRooted
  <2>2. Rewritten(a, v, op, token, terms) = [a EXCEPT !.nodes[v.id] = n]
    BY <1>2 DEF Rewritten
  <2>3. IsNode(n) /\ n.root = old.root /\ n.size = old.size
    BY <2>1 DEF IsNode
  <2> HIDE DEF n
  <2>4. QED
    BY <2>1, <2>2, <2>3, SameCountSound
<1>3. QED
  BY <1>1, <1>2

LEMMA WithTermsSound ==
  ASSUME NEW a, Sound(a), NEW v, NEW terms
  PROVE  Sound(WithTerms(a, v, terms)) /\ Extends(a, WithTerms(a, v, terms))
<1>1. CASE ~Live(a, v)
  BY <1>1, ExtendsSelf DEF WithTerms
<1>2. CASE Live(a, v)
  <2> DEFINE old == a.nodes[v.id]
             n   == [old EXCEPT !.terms = terms]
  <2>1. v.id \in DOMAIN a.nodes /\ IsNode(old)
    BY <1>2 DEF Live, Sound, WellRooted
  <2>2. IsNode(n) /\ n.root = old.root /\ n.size = old.size
    BY <2>1 DEF IsNode
  <2>3. WithTerms(a, v, terms) = [a EXCEPT !.nodes[v.id] = n]
    BY <1>2 DEF WithTerms
  <2> HIDE DEF n
  <2>4. QED
    BY <2>1, <2>2, <2>3, SameCountSound
<1>3. QED
  BY <1>1, <1>2

LEMMA UpdateExprNodeSound ==
  ASSUME NEW a, Sound(a), NEW v, NEW op, NEW token, NEW terms
  PROVE  LET b == UpdateExprNode(a, v, op, token, terms)
         IN  Sound(b) /\ Extends(a, b)
<1> DEFINE b == AdoptAll(a, v, terms)
           c == Rewritten(b, v, op, token, terms)
<1>1. Sound(b) /\ Extends(a, b)
  BY AdoptAllSound
<1> HIDE DEF b
<1>2. Sound(c) /\ Extends(b, c)
  BY <1>1, RewrittenSound
<1>3. Extends(a, c)
  BY <1>1, <1>2, ExtendsTrans
<1>4. QED
  BY <1>2, <1>3 DEF UpdateExprNode, b

LEMMA SetTermSound ==
  ASSUME NEW a, Sound(a), NEW v, NEW i, NEW value
  PROVE  Sound(SetTerm(a, v, i, value)) /\ Extends(a, SetTerm(a, v, i, value))
<1> DEFINE old == Terms(a, v)
           len == IF Len(old) < i THEN i ELSE Len(old)
           new == [j \in 1..len |-> IF j = i THEN value ELSE Slot(old, j)]
           b   == Adopt(a, v, value)
           c   == WithTerms(b, v, new)
<1>1. SetTerm(a, v, i, value) = c
  BY DEF SetTerm
<1>2. Sound(b) /\ Extends(a, b)
  BY AdoptSound
<1> HIDE DEF b, new
<1>3. Sound(c) /\ Extends(b, c)
  BY <1>2, WithTermsSound
<1> HIDE DEF c
<1>4. QED
  BY <1>1, <1>2, <1>3, ExtendsTrans

LEMMA PushTermSound ==
  ASSUME NEW a, Sound(a), NEW v, NEW value
  PROVE  Sound(PushTerm(a, v, value)) /\ Extends(a, PushTerm(a, v, value))
<1> DEFINE new == Append(Terms(a, v), value)
           b   == Adopt(a, v, value)
           c   == WithTerms(b, v, new)
<1>1. PushTerm(a, v, value) = c
  BY DEF PushTerm
<1>2. Sound(b) /\ Extends(a, b)
  BY AdoptSound
<1> HIDE DEF b, new
<1>3. Sound(c) /\ Extends(b, c)
  BY <1>2, WithTermsSound
<1> HIDE DEF c
<1>4. QED
  BY <1>1, <1>2, <1>3, ExtendsTrans

LEMMA WrapSound ==
  ASSUME NEW a, Sound(a), NEW v, NEW op, NEW token
  PROVE  Sound(Wrap(a, v, op, token)) /\ Extends(a, Wrap(a, v, op, token))
<1> DEFINE b == DupNode(a, v)
           c == UpdateExprNode(b, v, op, token, <<Newest(b)>>)
<1>1. Wrap(a, v, op, token) = c
  BY DEF Wrap
<1>2. Sound(b) /\ Extends(a, b)
  BY DupNodeSound
<1> HIDE DEF b
<1>3. Sound(c) /\ Extends(b, c)
  BY <1>2, UpdateExprNodeSound
<1> HIDE DEF c
<1>4. QED
  BY <1>1, <1>2, <1>3, ExtendsTrans

(***************************************************************************)
(* What a node says, apart from its accounting.  Accounting changes none   *)
(* of it, allocation adds one node, a rewrite changes the one it is given. *)
(***************************************************************************)
SameCell(m, n) == m.op = n.op /\ m.token = n.token /\ m.terms = n.terms

\* The nodes of a are those of b, and all but the ones in S say the same.
Keeps(a, b, S) ==
  /\ DOMAIN b.nodes = DOMAIN a.nodes /\ Len(b.nodes) = Len(a.nodes)
  /\ \A i \in DOMAIN a.nodes \ S : SameCell(b.nodes[i], a.nodes[i])

\* The nodes of b are those of a, and one more.
Allocates(a, b, op, token, terms) ==
  LET new == Len(a.nodes) + 1
  IN  /\ DOMAIN b.nodes = 1..new /\ Len(b.nodes) = new
      /\ \A i \in DOMAIN a.nodes : SameCell(b.nodes[i], a.nodes[i])
      /\ SameCell(b.nodes[new], [op |-> op, token |-> token, terms |-> terms])

LEMMA Nodes ==
  ASSUME NEW a, WellRooted(a)
  PROVE  /\ IsSeq(a.nodes) /\ Len(a.nodes) \in Nat /\ DOMAIN a.nodes = 1..Len(a.nodes)
         /\ a = [nodes |-> a.nodes, over_limit |-> a.over_limit]
         /\ \A i \in DOMAIN a.nodes : /\ IsNode(a.nodes[i])
                                      /\ a.nodes[i].root \in DOMAIN a.nodes
                                      /\ a.nodes[a.nodes[i].root].root = a.nodes[i].root
BY SeqShape DEF WellRooted

LEMMA KeepsTrans ==
  ASSUME NEW a, NEW b, NEW c, NEW S, Keeps(a, b, {}), Keeps(b, c, S)
  PROVE  Keeps(a, c, S)
BY DEF Keeps, SameCell

LEMMA ExceptKeeps ==
  ASSUME NEW a, WellRooted(a), NEW i \in DOMAIN a.nodes, NEW n, NEW b,
         b.nodes = [a.nodes EXCEPT ![i] = n]
  PROVE  Keeps(a, b, {i}) /\ b.nodes[i] = n
<1>1. /\ IsSeq(b.nodes) /\ DOMAIN b.nodes = DOMAIN a.nodes
      /\ \A j \in DOMAIN a.nodes : b.nodes[j] = IF j = i THEN n ELSE a.nodes[j]
  BY Nodes, SeqExcept
<1>2. Len(b.nodes) \in Nat /\ DOMAIN b.nodes = 1..Len(b.nodes)
  BY <1>1, SeqShape
<1>3. Len(a.nodes) \in Nat /\ DOMAIN a.nodes = 1..Len(a.nodes)
  BY Nodes
<1>4. Len(b.nodes) = Len(a.nodes)
  BY <1>1, <1>2, <1>3
<1>5. QED
  BY <1>1, <1>4 DEF Keeps, SameCell

LEMMA GrowKeeps ==
  ASSUME NEW a, WellRooted(a), NEW v, NEW count
  PROVE  Keeps(a, Grow(a, v, count), {})
<1>1. CASE ~Live(a, v)
  BY <1>1 DEF Grow, Keeps, SameCell
<1>2. CASE Live(a, v)
  <2> DEFINE r    == RootOf(a, v)
             n    == [a.nodes[r] EXCEPT !.size = a.nodes[r].size + count]
             over == a.over_limit \/ a.nodes[r].size + count > NodeLimit
             b    == [nodes |-> [a.nodes EXCEPT ![r] = n], over_limit |-> over]
  <2>1. r \in DOMAIN a.nodes /\ IsNode(a.nodes[r])
    BY <1>2 DEF Live, RootOf, WellRooted
  <2>2. SameCell(n, a.nodes[r])
    BY <2>1 DEF IsNode, SameCell
  <2>3. Grow(a, v, count) = b
    BY <1>2 DEF Grow
  <2>4. b.nodes = [a.nodes EXCEPT ![r] = n]
    OBVIOUS
  <2> HIDE DEF r, n, b
  <2>5. Keeps(a, b, {r}) /\ b.nodes[r] = n
    BY <2>1, <2>4, ExceptKeeps
  <2>6. QED
    BY <2>2, <2>3, <2>5 DEF Keeps
<1>3. QED
  BY <1>1, <1>2

LEMMA AdoptKeeps ==
  ASSUME NEW a, Sound(a), NEW container, NEW term
  PROVE  Keeps(a, Adopt(a, container, term), {})
BY GrowKeeps DEF Adopt, Keeps, SameCell, Sound

LEMMA AdoptAllKeeps ==
  ASSUME NEW a, Sound(a), NEW container, NEW terms
  PROVE  Keeps(a, AdoptAll(a, container, terms), {})
<1> DEFINE b1 == Adopt(a, container, Slot(terms, 1))
           b2 == Adopt(b1, container, Slot(terms, 2))
           b3 == Adopt(b2, container, Slot(terms, 3))
<1>1. Sound(b1) /\ Keeps(a, b1, {})
  BY AdoptSound, AdoptKeeps
<1> HIDE DEF b1
<1>2. Sound(b2) /\ Keeps(b1, b2, {})
  BY <1>1, AdoptSound, AdoptKeeps
<1> HIDE DEF b2
<1>3. Keeps(b2, b3, {})
  BY <1>2, AdoptKeeps
<1>4. b3 = AdoptAll(a, container, terms)
  BY DEF AdoptAll, b1, b2
<1> HIDE DEF b3
<1>5. QED
  BY <1>1, <1>2, <1>3, <1>4, KeepsTrans

LEMMA AddedAllocates ==
  ASSUME NEW a, Sound(a), NEW op, NEW token, NEW terms, NEW root
  PROVE  Allocates(a, Added(a, op, token, terms, root), op, token, terms)
<1> DEFINE n == [op |-> op, token |-> token, terms |-> terms, root |-> root, size |-> 1]
           b == Added(a, op, token, terms, root)
<1>1. b.nodes = Append(a.nodes, n)
  BY AddedShape
<1>2. SameCell(n, [op |-> op, token |-> token, terms |-> terms])
  BY DEF SameCell
<1> HIDE DEF n, b
<1>3. QED
  BY <1>1, <1>2, Nodes, SeqAppend DEF Allocates, SameCell, b, Sound

LEMMA AllocatesKeeps ==
  ASSUME NEW a, NEW b, NEW c, NEW op, NEW token, NEW terms, Sound(a),
         Allocates(a, b, op, token, terms), Keeps(b, c, {})
  PROVE  Allocates(a, c, op, token, terms)
<1>1. Len(a.nodes) \in Nat /\ DOMAIN a.nodes = 1..Len(a.nodes)
  BY Nodes DEF Sound
<1>2. QED
  BY <1>1 DEF Allocates, Keeps, SameCell

LEMMA NewNodeAllocates ==
  ASSUME NEW a, Sound(a), NEW op, NEW token, NEW terms
  PROVE  Allocates(a, NewNode(a, op, token, terms), op, token, terms)
<1> DEFINE b == Added(a, op, token, terms, Len(a.nodes) + 1)
           c == AdoptAll(b, Newest(b), terms)
<1>1. Sound(b) /\ Allocates(a, b, op, token, terms)
  BY StartedSound, AddedAllocates
<1>2. NewNode(a, op, token, terms) = c
  BY DEF NewNode
<1> HIDE DEF b
<1>3. Keeps(b, c, {})
  BY <1>1, AdoptAllKeeps
<1> HIDE DEF c
<1>4. QED
  BY <1>1, <1>2, <1>3, AllocatesKeeps

LEMMA AddedRooted ==
  ASSUME NEW a, Sound(a), NEW op, NEW token, NEW terms, NEW root,
         \/ root = Len(a.nodes) + 1
         \/ root \in DOMAIN a.nodes /\ a.nodes[root].root = root
  PROVE  WellRooted(Added(a, op, token, terms, root))
<1> DEFINE len == Len(a.nodes)
           n   == [op |-> op, token |-> token, terms |-> terms, root |-> root, size |-> 1]
           b   == Added(a, op, token, terms, root)
<1>1. b = [nodes |-> Append(a.nodes, n), over_limit |-> a.over_limit]
  BY AddedShape
<1>2. /\ len \in Nat /\ DOMAIN a.nodes = 1..len /\ IsSeq(a.nodes) /\ a.over_limit \in BOOLEAN
      /\ \A i \in 1..len : /\ IsNode(a.nodes[i]) /\ a.nodes[i].root \in 1..len
                           /\ a.nodes[a.nodes[i].root].root = a.nodes[i].root
  BY Nodes DEF Sound, WellRooted
<1>3. root \in 1..(len + 1) /\ (root \in 1..len => a.nodes[root].root = root)
  BY <1>2
<1>4. IsNode(n) /\ n.root = root
  BY <1>2, <1>3 DEF IsNode
<1> HIDE DEF n, b
<1>5. /\ b = [nodes |-> b.nodes, over_limit |-> b.over_limit] /\ b.over_limit \in BOOLEAN
      /\ b.nodes = Append(a.nodes, n)
  BY <1>1, <1>2
<1>6. /\ IsSeq(b.nodes) /\ DOMAIN b.nodes = 1..(len + 1) /\ b.nodes[len + 1] = n
      /\ \A i \in 1..len : b.nodes[i] = a.nodes[i]
  BY <1>2, <1>5, SeqAppend
<1> HIDE DEF len
<1>7. b.nodes[root].root = root
  <2>1. CASE root = len + 1
    BY <2>1, <1>4, <1>6
  <2>2. CASE root # len + 1
    BY <2>2, <1>2, <1>3, <1>6
  <2>3. QED
    BY <2>1, <2>2
<1>8. ASSUME NEW i \in 1..(len + 1)
      PROVE  /\ IsNode(b.nodes[i]) /\ b.nodes[i].root \in 1..(len + 1)
             /\ b.nodes[b.nodes[i].root].root = b.nodes[i].root
  <2>1. CASE i = len + 1
    BY <2>1, <1>3, <1>4, <1>6, <1>7
  <2>2. CASE i \in 1..len
    <3> DEFINE r == a.nodes[i].root
    <3>1. b.nodes[i] = a.nodes[i] /\ IsNode(a.nodes[i])
      BY <2>2, <1>2, <1>6
    <3>2. r \in 1..len /\ a.nodes[r].root = r
      BY <2>2, <1>2
    <3> HIDE DEF r
    <3>3. b.nodes[r].root = r /\ r \in 1..(len + 1)
      BY <3>2, <1>2, <1>6
    <3>4. QED
      BY <3>1, <3>3 DEF r
  <2>3. QED
    BY <2>1, <2>2, <1>2
<1>9. QED
  BY <1>5, <1>6, <1>8 DEF WellRooted, b

LEMMA NewNodeUnderAllocates ==
  ASSUME NEW a, Sound(a), NEW op, NEW token, NEW terms, NEW under
  PROVE  Allocates(a, NewNodeUnder(a, op, token, terms, under), op, token, terms)
<1> DEFINE root == IF Live(a, under) THEN RootOf(a, under) ELSE Len(a.nodes) + 1
           b    == Added(a, op, token, terms, root)
           c    == Grow(b, Newest(b), 1)
           d    == AdoptAll(c, Newest(b), terms)
<1>1. \/ root = Len(a.nodes) + 1
      \/ root \in DOMAIN a.nodes /\ a.nodes[root].root = root
  BY DEF Live, RootOf, Sound, WellRooted
<1>2. NewNodeUnder(a, op, token, terms, under) = d
  BY DEF NewNodeUnder
<1>3. Sound(c)
  <2>1. CASE root = Len(a.nodes) + 1
    <3>1. Sound(b)
      BY <2>1, StartedSound
    <3> HIDE DEF b
    <3>2. QED
      BY <3>1, GrowSound
  <2>2. CASE root \in DOMAIN a.nodes /\ a.nodes[root].root = root
    <3> HIDE DEF root
    <3>1. QED
      BY <2>2, JoinedSound
  <2>3. QED
    BY <1>1, <2>1, <2>2
<1> HIDE DEF root
<1>4. WellRooted(b) /\ Allocates(a, b, op, token, terms)
  BY <1>1, AddedRooted, AddedAllocates
<1> HIDE DEF b
<1>5. Keeps(b, c, {})
  BY <1>4, GrowKeeps
<1> HIDE DEF c
<1>6. Keeps(c, d, {})
  BY <1>3, AdoptAllKeeps
<1> HIDE DEF d
<1>7. Keeps(b, d, {})
  BY <1>5, <1>6, KeepsTrans
<1>8. QED
  BY <1>2, <1>4, <1>7, AllocatesKeeps

LEMMA RewrittenKeeps ==
  ASSUME NEW a, Sound(a), NEW v, Live(a, v), NEW op, NEW token, NEW terms
  PROVE  LET b == Rewritten(a, v, op, token, terms)
         IN  /\ Keeps(a, b, {v.id})
             /\ SameCell(b.nodes[v.id], [op |-> op, token |-> token, terms |-> terms])
<1> DEFINE old == a.nodes[v.id]
           n   == [op |-> op, token |-> token, terms |-> terms,
                   root |-> old.root, size |-> old.size]
           b   == Rewritten(a, v, op, token, terms)
<1>1. v.id \in DOMAIN a.nodes
  BY DEF Live
<1>2. b.nodes = [a.nodes EXCEPT ![v.id] = n]
  BY <1>1 DEF Rewritten, Sound, WellRooted
<1>3. SameCell(n, [op |-> op, token |-> token, terms |-> terms])
  BY DEF SameCell
<1> HIDE DEF n, b
<1>4. Keeps(a, b, {v.id}) /\ b.nodes[v.id] = n
  BY <1>1, <1>2, ExceptKeeps DEF Sound
<1>5. QED
  BY <1>3, <1>4 DEF b

LEMMA WithTermsKeeps ==
  ASSUME NEW a, Sound(a), NEW v, Live(a, v), NEW terms
  PROVE  LET b == WithTerms(a, v, terms)
         IN  /\ Keeps(a, b, {v.id})
             /\ SameCell(b.nodes[v.id], [op |-> a.nodes[v.id].op,
                                         token |-> a.nodes[v.id].token, terms |-> terms])
<1> DEFINE old == a.nodes[v.id]
           n   == [old EXCEPT !.terms = terms]
           b   == WithTerms(a, v, terms)
<1>1. v.id \in DOMAIN a.nodes /\ IsNode(old)
  BY DEF Live, Sound, WellRooted
<1>2. b.nodes = [a.nodes EXCEPT ![v.id] = n]
  BY <1>1 DEF WithTerms, Sound, WellRooted
<1>3. SameCell(n, [op |-> old.op, token |-> old.token, terms |-> terms])
  BY <1>1 DEF SameCell, IsNode
<1> HIDE DEF n, b
<1>4. Keeps(a, b, {v.id}) /\ b.nodes[v.id] = n
  BY <1>1, <1>2, ExceptKeeps DEF Sound
<1>5. QED
  BY <1>3, <1>4 DEF b

\* A write of one node's terms, with what it takes in counted.
Retermed(a, b, v, terms) ==
  /\ Keeps(a, b, {v.id})
  /\ SameCell(b.nodes[v.id], [op |-> a.nodes[v.id].op, token |-> a.nodes[v.id].token,
                              terms |-> terms])

LEMMA AdoptWithTerms ==
  ASSUME NEW a, Sound(a), NEW v, Live(a, v), NEW value, NEW terms
  PROVE  Retermed(a, WithTerms(Adopt(a, v, value), v, terms), v, terms)
<1> DEFINE b == Adopt(a, v, value)
           c == WithTerms(b, v, terms)
<1>1. Sound(b) /\ Keeps(a, b, {})
  BY AdoptSound, AdoptKeeps
<1> HIDE DEF b
<1>2. Live(b, v) /\ v.id \in DOMAIN a.nodes
  BY <1>1 DEF Live, Keeps
<1>3. /\ Keeps(b, c, {v.id})
      /\ SameCell(c.nodes[v.id], [op |-> b.nodes[v.id].op,
                                  token |-> b.nodes[v.id].token, terms |-> terms])
  BY <1>1, <1>2, WithTermsKeeps
<1> HIDE DEF c
<1>4. Keeps(a, c, {v.id})
  BY <1>1, <1>3, KeepsTrans
<1>5. b.nodes[v.id].op = a.nodes[v.id].op /\ b.nodes[v.id].token = a.nodes[v.id].token
  BY <1>1, <1>2 DEF Keeps, SameCell
<1>6. QED
  BY <1>3, <1>4, <1>5 DEF Retermed, b, c

LEMMA SetTermKeeps ==
  ASSUME NEW a, Sound(a), NEW v, Live(a, v), NEW i, NEW value
  PROVE  LET old == a.nodes[v.id].terms
         IN  Retermed(a, SetTerm(a, v, i, value), v,
                      [j \in 1..(IF Len(old) < i THEN i ELSE Len(old)) |->
                         IF j = i THEN value ELSE Slot(old, j)])
BY AdoptWithTerms DEF SetTerm, Terms

LEMMA PushTermKeeps ==
  ASSUME NEW a, Sound(a), NEW v, Live(a, v), NEW value
  PROVE  Retermed(a, PushTerm(a, v, value), v, Append(a.nodes[v.id].terms, value))
BY AdoptWithTerms DEF PushTerm, Terms

LEMMA UpdateExprNodeKeeps ==
  ASSUME NEW a, Sound(a), NEW v, Live(a, v), NEW op, NEW token, NEW terms
  PROVE  LET b == UpdateExprNode(a, v, op, token, terms)
         IN  /\ Keeps(a, b, {v.id})
             /\ SameCell(b.nodes[v.id], [op |-> op, token |-> token, terms |-> terms])
<1> DEFINE b == AdoptAll(a, v, terms)
           c == Rewritten(b, v, op, token, terms)
<1>1. Sound(b) /\ Keeps(a, b, {})
  BY AdoptAllSound, AdoptAllKeeps
<1> HIDE DEF b
<1>2. Live(b, v)
  BY <1>1 DEF Live, Keeps
<1>3. /\ Keeps(b, c, {v.id})
      /\ SameCell(c.nodes[v.id], [op |-> op, token |-> token, terms |-> terms])
  BY <1>1, <1>2, RewrittenKeeps
<1> HIDE DEF c
<1>4. Keeps(a, c, {v.id})
  BY <1>1, <1>3, KeepsTrans
<1>5. UpdateExprNode(a, v, op, token, terms) = c
  BY DEF UpdateExprNode, b, c
<1>6. QED
  BY <1>3, <1>4, <1>5

\* The rewrite of a looser operator: the node becomes the operator, and a new
\* node, its one term, says what the node said.
Wraps(a, b, v, op, token) ==
  LET new == Len(a.nodes) + 1
  IN  /\ DOMAIN b.nodes = 1..new /\ Len(b.nodes) = new
      /\ \A i \in DOMAIN a.nodes \ {v.id} : SameCell(b.nodes[i], a.nodes[i])
      /\ SameCell(b.nodes[new], a.nodes[v.id])
      /\ SameCell(b.nodes[v.id], [op |-> op, token |-> token, terms |-> <<Handle(new)>>])

LEMMA WrapWraps ==
  ASSUME NEW a, Sound(a), NEW v, Live(a, v), NEW op, NEW token
  PROVE  Wraps(a, Wrap(a, v, op, token), v, op, token)
<1> DEFINE new == Len(a.nodes) + 1
           old == a.nodes[v.id]
           b   == DupNode(a, v)
           c   == UpdateExprNode(b, v, op, token, <<Newest(b)>>)
<1>1. Sound(b)
  BY DupNodeSound
<1>2. Allocates(a, b, old.op, old.token, old.terms)
  BY NewNodeUnderAllocates DEF DupNode
<1>3. Wrap(a, v, op, token) = c
  BY DEF Wrap
<1> HIDE DEF b
<1>4. /\ v.id \in DOMAIN a.nodes /\ Len(a.nodes) \in Nat /\ DOMAIN a.nodes = 1..Len(a.nodes)
      /\ v.id # new
  BY Nodes DEF Live, Sound
<1>5. Live(b, v) /\ Newest(b) = Handle(new)
  BY <1>2, <1>4 DEF Live, Allocates, Newest
<1>6. /\ Keeps(b, c, {v.id})
      /\ SameCell(c.nodes[v.id], [op |-> op, token |-> token, terms |-> <<Newest(b)>>])
  BY <1>1, <1>5, UpdateExprNodeKeeps
<1> HIDE DEF c
<1>7. \A i \in DOMAIN a.nodes \ {v.id} : SameCell(c.nodes[i], a.nodes[i])
  BY <1>2, <1>4, <1>6 DEF Allocates, Keeps, SameCell
<1>8. SameCell(c.nodes[new], old)
  BY <1>2, <1>4, <1>6 DEF Allocates, Keeps, SameCell
<1>9. DOMAIN c.nodes = 1..new /\ Len(c.nodes) = new
  BY <1>2, <1>6 DEF Allocates, Keeps
<1>10. QED
  BY <1>3, <1>5, <1>6, <1>7, <1>8, <1>9 DEF Wraps

(***************************************************************************)
(* No node is reached from itself.  A node put in between keeps the arena  *)
(* so, and so does a term, when there is a line between what takes it and  *)
(* what it brings: a number such that no node above it holds one below.    *)
(***************************************************************************)
\* The terms of every node are nodes of the arena, or no nodes at all.
Closed(a) == \A i \in DOMAIN a.nodes : \A j \in DOMAIN a.nodes[i].terms :
               a.nodes[i].terms[j].k = "node" => a.nodes[i].terms[j].id \in DOMAIN a.nodes

\* A node above the line N holds only nodes above it.
Upper(a, N) == \A i \in DOMAIN a.nodes : i > N => \A x \in Held(a, i) : x > N

LEMMA HeldBy ==
  ASSUME NEW a, NEW i, NEW x
  PROVE  x \in Held(a, i) <=>
           /\ x \in DOMAIN a.nodes
           /\ \E j \in DOMAIN a.nodes[i].terms : /\ a.nodes[i].terms[j].k = "node"
                                                /\ a.nodes[i].terms[j].id = x
BY DEF Held, SameNode, Handle

\* A node that says the same holds the same, whatever was allocated.
LEMMA HeldSame ==
  ASSUME NEW a, NEW b, NEW i \in DOMAIN a.nodes, Closed(a),
         DOMAIN a.nodes \subseteq DOMAIN b.nodes, NEW n, a.nodes[i].terms = b.nodes[n].terms
  PROVE  Held(b, n) = Held(a, i)
<1> SUFFICES ASSUME NEW x PROVE x \in Held(b, n) <=> x \in Held(a, i)
  OBVIOUS
<1>1. \A j \in DOMAIN a.nodes[i].terms :
        a.nodes[i].terms[j].k = "node" => a.nodes[i].terms[j].id \in DOMAIN a.nodes
  BY DEF Closed
<1>2. QED
  BY <1>1, HeldBy

LEMMA AcyclicAdded ==
  ASSUME NEW a, NEW b, NEW new, Acyclic(a), DOMAIN b.nodes = DOMAIN a.nodes \cup {new},
         new \notin DOMAIN a.nodes, \A i \in DOMAIN a.nodes : Held(b, i) = Held(a, i),
         Held(b, new) \subseteq DOMAIN a.nodes
  PROVE  Acyclic(b)
<1> SUFFICES ASSUME NEW S \in SUBSET DOMAIN b.nodes, S # {}
             PROVE  \E i \in S : Held(b, i) \cap S = {}
  BY DEF Acyclic
<1> DEFINE T == S \ {new}
<1>1. CASE T = {}
  BY <1>1
<1>2. CASE T # {}
  <2>1. PICK i \in T : Held(a, i) \cap T = {}
    BY <1>2 DEF Acyclic
  <2>2. new \notin Held(a, i)
    BY DEF Held
  <2>3. QED
    BY <2>1, <2>2
<1>3. QED
  BY <1>1, <1>2

\* The new node stands between v and nodes v held.
LEMMA AcyclicBetween ==
  ASSUME NEW a, NEW b, NEW new, NEW v \in DOMAIN a.nodes, Acyclic(a),
         DOMAIN b.nodes = DOMAIN a.nodes \cup {new}, new \notin DOMAIN a.nodes,
         \A i \in DOMAIN a.nodes \ {v} : Held(b, i) = Held(a, i),
         Held(b, v) \subseteq Held(a, v) \cup {new}, Held(b, new) \subseteq Held(a, v)
  PROVE  Acyclic(b)
<1> SUFFICES ASSUME NEW S \in SUBSET DOMAIN b.nodes, S # {}
             PROVE  \E i \in S : Held(b, i) \cap S = {}
  BY DEF Acyclic
<1>1. \A i \in DOMAIN a.nodes : new \notin Held(a, i)
  BY DEF Held
<1> DEFINE T == (S \ {new}) \cup (IF new \in S THEN {v} ELSE {})
<1>2. T \in SUBSET DOMAIN a.nodes /\ T # {}
  OBVIOUS
<1>3. PICK i \in T : Held(a, i) \cap T = {}
  BY <1>2 DEF Acyclic
<1>4. S \ {new} \subseteq T /\ (new \in S => v \in T)
  OBVIOUS
<1>5. CASE i # v
  <2>1. i \in S /\ i \in DOMAIN a.nodes
    BY <1>2, <1>5
  <2>2. QED
    BY <1>1, <1>3, <1>4, <1>5, <2>1
<1>6. CASE i = v /\ new \in S
  BY <1>1, <1>3, <1>4, <1>6
<1>7. CASE i = v /\ new \notin S
  <2>1. v \in S
    BY <1>2, <1>7
  <2>2. QED
    BY <1>1, <1>3, <1>4, <1>7, <2>1
<1>8. QED
  BY <1>5, <1>6, <1>7

LEMMA AcyclicPushed ==
  ASSUME NEW a, NEW b, NEW e \in DOMAIN a.nodes, NEW N \in Nat, Acyclic(a), Upper(a, N),
         DOMAIN a.nodes \subseteq Nat, DOMAIN b.nodes = DOMAIN a.nodes, e <= N,
         \A i \in DOMAIN a.nodes \ {e} : Held(b, i) = Held(a, i),
         \A x \in Held(b, e) : x \in Held(a, e) \/ x > N
  PROVE  Acyclic(b)
<1> SUFFICES ASSUME NEW S \in SUBSET DOMAIN b.nodes, S # {}
             PROVE  \E i \in S : Held(b, i) \cap S = {}
  BY DEF Acyclic
<1> DEFINE T == {i \in S : i > N}
<1>1. CASE T # {}
  <2>1. PICK i \in T : Held(a, i) \cap T = {}
    BY <1>1 DEF Acyclic
  <2>2. \A x \in Held(a, i) : x > N
    BY DEF Upper
  <2>3. i # e
    BY <2>1
  <2>4. QED
    BY <2>1, <2>2, <2>3
<1>2. CASE T = {}
  <2>1. PICK i \in S : Held(a, i) \cap S = {}
    BY DEF Acyclic
  <2>2. CASE i # e
    BY <2>1, <2>2
  <2>3. CASE i = e
    BY <1>2, <2>1, <2>3
  <2>4. QED
    BY <2>2, <2>3
<1>3. QED
  BY <1>1, <1>2
=============================================================================
