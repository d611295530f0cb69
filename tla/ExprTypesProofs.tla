-------------------------- MODULE ExprTypesProofs --------------------------
(***************************************************************************)
(* Type correctness of the rules: whatever the source and the table, every *)
(* handle a rule, a node or the Pratt core holds names a node, and every   *)
(* rule a rule names was created.                                          *)
(***************************************************************************)
EXTENDS PrattProofs

(***************************************************************************)
(* The types in full.                                                      *)
(***************************************************************************)
Counters == [expr : Nat, prefix : Nat, suffix : Nat, paren : Nat, ternary : Nat, list : Nat,
             depth : SUBSET DOMAIN Paren]

Names == {"val", "expr", "paren", "ternary"}

\* The rules that hold values of V and name rules up to the n-th.
RuleSet(V, n) ==
  [name : Names, state : {"open", "close"}, node : V, n : Counters, d : Nat,
   parent : 0..n, prev : 0..n, child : 0..n, value : V, attach : V, preval : BOOLEAN,
   depth : SUBSET DOMAIN Paren, step : Nat, tparen : Nat, tname : DOMAIN Ternary \cup {"none"}]

\* A paren was pushed, and a ternary of the table replaced another rule.  A rule
\* remembers a token's value, and only an expr publishes an attachment point.
Placed(R) == /\ R.name = "paren" => R.parent # 0
             /\ R.name = "ternary" => R.prev # 0 /\ DOMAIN Ternary # {}
             /\ R.value.k # "node"
             /\ R.name # "expr" => R.attach = Undefined

Rules(V, n) == {R \in RuleSet(V, n) : Placed(R)}

TermsTyped(a, V) == \A i \in DOMAIN a.nodes : a.nodes[i].terms \in Seq(V)

InputTyped ==
  /\ input \in Seq(Tokens \cup {ZZ}) /\ Len(input) \in 1..(MaxTokens + 1)
  /\ Len(input) = MaxTokens + 1 => input[Len(input)] = ZZ
  /\ at \in 1..(MaxTokens + 1)

StackTyped ==
  /\ rules \in Seq(Rules(Value, Len(rules)))
  /\ stack \in Seq(1..Len(rules)) /\ cur \in 0..Len(rules)
  /\ result \in Value
  /\ status \in {"run", "done", "error", "base", "cancel"}

CallTyped ==
  pratt # NoCall => /\ cur # 0 /\ rules[cur].name = "expr"
                    /\ pratt.root \in Value /\ pratt.expr \in Value

Typed == TermsTyped(arena, Value) /\ InputTyped /\ StackTyped /\ CallTyped

TypeInv == PrattInv /\ Typed

(***************************************************************************)
(* Values and tokens.                                                      *)
(***************************************************************************)
LEMMA ValuesAre ==
  ASSUME NEW a, NEW p
  PROVE  /\ Undefined \in Values(a, p)
         /\ \A q \in 1..p : Leaf(q) \in Values(a, p)
         /\ \A i \in DOMAIN a.nodes : Handle(i) \in Values(a, p)
BY DEF Values, Undefined, Leaf, Handle

LEMMA ValuesGrow ==
  ASSUME NEW a, NEW b, NEW p \in Nat, NEW q \in Nat,
         DOMAIN a.nodes \subseteq DOMAIN b.nodes, p <= q
  PROVE  Values(a, p) \subseteq Values(b, q)
BY DEF Values

LEMMA ConsumeTyped ==
  ASSUME InputTyped, t0 \in Tokens, Consume
  PROVE  InputTyped' /\ at' = at + 1
<1>1. /\ input \in Seq(Tokens \cup {ZZ}) /\ Len(input) \in 1..(MaxTokens + 1)
      /\ Len(input) = MaxTokens + 1 => input[Len(input)] = ZZ
      /\ at \in 1..(MaxTokens + 1) /\ MaxTokens \in Nat
      /\ at' = at + 1 /\ input' \in Sighted(input) /\ ZZ \notin Tokens
  BY TokensBound, TokensAssumption DEF InputTyped, Consume
<1>2. at \in DOMAIN input /\ input[at] # ZZ
  BY <1>1 DEF t0, Tok
<1>3. at' \in 1..(MaxTokens + 1)
  BY <1>1, <1>2
<1>4. CASE input[Len(input)] = ZZ
  BY <1>1, <1>3, <1>4 DEF Sighted, InputTyped
<1>5. CASE input[Len(input)] # ZZ
  <2>1. PICK t \in IF Len(input) < MaxTokens THEN Tokens \cup {ZZ} ELSE {ZZ} :
           input' = Append(input, t)
    BY <1>1, <1>5 DEF Sighted
  <2>2. t \in Tokens \cup {ZZ} /\ (Len(input) >= MaxTokens => t = ZZ)
    BY <1>1, <2>1
  <2>3. /\ input' \in Seq(Tokens \cup {ZZ}) /\ Len(input') = Len(input) + 1
        /\ input'[Len(input')] = t
    BY <1>1, <2>1, <2>2, AppendProperties
  <2>4. QED
    BY <1>1, <1>3, <1>5, <2>2, <2>3 DEF InputTyped
<1>6. QED
  BY <1>1, <1>4, <1>5

LEMMA KeepTyped ==
  ASSUME InputTyped, Keep
  PROVE  InputTyped' /\ at' = at
BY DEF InputTyped, Keep

(***************************************************************************)
(* The ways a pass ends.                                                   *)
(***************************************************************************)
LEMMA RulesGrow ==
  ASSUME NEW V, NEW W, V \subseteq W, NEW m \in Nat, NEW n \in Nat, m <= n
  PROVE  Rules(V, m) \subseteq Rules(W, n)
<1>1. 0..m \subseteq 0..n
  OBVIOUS
<1>2. RuleSet(V, m) \subseteq RuleSet(W, n)
  BY <1>1 DEF RuleSet
<1>3. QED
  BY <1>2 DEF Rules

LEMMA Fields ==
  ASSUME NEW V, NEW n, NEW R \in Rules(V, n)
  PROVE  /\ R.name \in Names /\ R.state \in {"open", "close"} /\ R.d \in Nat /\ R.n \in Counters
         /\ {R.node, R.value, R.attach} \subseteq V
         /\ {R.parent, R.prev, R.child} \subseteq 0..n
         /\ R.step \in Nat /\ R.tparen \in Nat /\ R.preval \in BOOLEAN
         /\ R.name = "paren" => R.parent # 0
         /\ R.name = "ternary" => R.prev # 0 /\ DOMAIN Ternary # {}
         /\ R.value.k # "node" /\ (R.name # "expr" => R.attach = Undefined)
BY DEF Rules, RuleSet, Placed

\* Other counters.
LEMMA WithCounters ==
  ASSUME NEW V, NEW n, NEW R \in Rules(V, n), NEW c \in Counters
  PROVE  [R EXCEPT !.n = c] \in Rules(V, n)
BY DEF Rules, RuleSet, Placed

\* A new rule, seeded by R.
LEMMA RuleTyped ==
  ASSUME NEW V, Undefined \in V, NEW n \in Nat, NEW name \in Names, NEW node \in V,
         NEW c \in Counters, NEW parent \in 0..n, NEW prev \in 0..n, NEW d \in Nat,
         name = "paren" => parent # 0,
         name = "ternary" => prev # 0 /\ DOMAIN Ternary # {}
  PROVE  Rule(name, node, c, parent, prev, d) \in Rules(V, n)
BY DEF Rule, Rules, RuleSet, Placed, Undefined

\* The rules and the stack as a pass leaves them.
Left(V, rs, st, c) ==
  /\ rs \in Seq(Rules(V, Len(rs))) /\ st \in Seq(1..Len(rs)) /\ c \in 0..Len(rs)

\* What a pass works on: R is the current rule and rs the others, as hooks and
\* action left them, st the stack.
Works(V, R, rs, st, c) ==
  /\ Undefined \in V /\ rs \in Seq(Rules(V, Len(rs))) /\ R \in Rules(V, Len(rs))
  /\ st \in Seq(1..Len(rs)) /\ c \in 1..Len(rs)

LEMMA PushTyped ==
  ASSUME NEW V, NEW R, NEW others, NEW name \in Names \ {"ternary"},
         Works(V, R, others, stack, cur), Push(R, name, others)
  PROVE  Left(V, rules', stack', cur')
<1> DEFINE n  == Len(others)
           S  == [R EXCEPT !.state = "close", !.child = n + 1]
           rs == [others EXCEPT ![cur] = S]
           new == Rule(name, R.node, R.n, cur, 0, R.d + 1)
           T  == Rules(V, n + 1)
<1>1. /\ others \in Seq(Rules(V, n)) /\ n \in Nat /\ cur \in 1..n /\ R \in Rules(V, n)
      /\ Undefined \in V /\ stack \in Seq(1..n)
  BY DEF Works
<1>2. Rules(V, n) \subseteq T
  BY <1>1, RulesGrow
<1>3. S \in T
  <2>1. R \in RuleSet(V, n + 1) /\ Placed(R) /\ n + 1 \in 0..(n + 1)
    BY <1>1, <1>2 DEF Rules
  <2>2. /\ S \in RuleSet(V, n + 1) /\ S.name = R.name /\ S.parent = R.parent
        /\ S.prev = R.prev /\ S.value = R.value /\ S.attach = R.attach
    BY <2>1 DEF RuleSet
  <2>3. QED
    BY <2>1, <2>2 DEF Rules, Placed
<1>4. new \in T
  <2>0. R.node \in V /\ R.n \in Counters /\ R.d \in Nat
    BY <1>1, Fields
  <2>1. R.d + 1 \in Nat
    BY <2>0
  <2>2. n + 1 \in Nat /\ cur \in 0..(n + 1) /\ 0 \in 0..(n + 1) /\ cur # 0
    BY <1>1
  <2>3. QED
    BY <1>1, <2>0, <2>1, <2>2, RuleTyped
<1>5. rules' = Append(rs, new) /\ stack' = Append(stack, cur) /\ cur' = n + 1
  BY DEF Push
<1> HIDE DEF S, new, T, n
<1>6. others \in Seq(T) /\ Len(others) = n
  BY <1>1, <1>2, SeqMonotonic DEF n
<1>7. rs \in Seq(T) /\ Len(rs) = n
  BY <1>1, <1>3, <1>6, ExceptSeq
<1> HIDE DEF rs
<1>8. rules' \in Seq(T) /\ Len(rules') = n + 1
  BY <1>4, <1>5, <1>7, AppendProperties
<1>9. stack' \in Seq(1..(n + 1))
  <2>1. stack \in Seq(1..(n + 1)) /\ cur \in 1..(n + 1)
    BY <1>1, SeqMonotonic
  <2>2. QED
    BY <1>5, <2>1, AppendProperties
<1>10. QED
  BY <1>1, <1>5, <1>8, <1>9 DEF Left, T

LEMMA ReplaceTyped ==
  ASSUME NEW V, NEW R, NEW others, NEW name \in Names \ {"paren"},
         name = "ternary" => DOMAIN Ternary # {},
         Works(V, R, others, stack, cur), Replace(R, name, others)
  PROVE  Left(V, rules', stack', cur')
<1> DEFINE n  == Len(others)
           rs == [others EXCEPT ![cur] = R]
           new == Rule(name, R.node, R.n, R.parent, cur, R.d)
           T  == Rules(V, n + 1)
<1>1. /\ others \in Seq(Rules(V, n)) /\ n \in Nat /\ cur \in 1..n /\ R \in Rules(V, n)
      /\ Undefined \in V /\ stack \in Seq(1..n)
  BY DEF Works
<1>2. Rules(V, n) \subseteq T
  BY <1>1, RulesGrow
<1>3. R \in T
  BY <1>1, <1>2
<1>4. new \in T
  <2>1. R.node \in V /\ R.n \in Counters /\ R.d \in Nat /\ R.parent \in 0..(n + 1)
    BY <1>1 DEF Rules, RuleSet
  <2>2. n + 1 \in Nat /\ cur \in 0..(n + 1) /\ cur # 0
    BY <1>1
  <2>3. QED
    BY <1>1, <2>1, <2>2, RuleTyped
<1>5. rules' = Append(rs, new) /\ stack' = stack /\ cur' = n + 1
  BY DEF Replace
<1> HIDE DEF new, T, n
<1>6. others \in Seq(T) /\ Len(others) = n
  BY <1>1, <1>2, SeqMonotonic DEF n
<1>7. rs \in Seq(T) /\ Len(rs) = n
  BY <1>1, <1>3, <1>6, ExceptSeq
<1> HIDE DEF rs
<1>8. rules' \in Seq(T) /\ Len(rules') = n + 1
  BY <1>4, <1>5, <1>7, AppendProperties
<1>9. stack' \in Seq(1..(n + 1))
  BY <1>1, <1>5, SeqMonotonic
<1>10. QED
  BY <1>1, <1>5, <1>8, <1>9 DEF Left, T

LEMMA StayTyped ==
  ASSUME NEW V, NEW R, NEW others, Works(V, R, others, stack, cur), Stay(R, others)
  PROVE  Left(V, rules', stack', cur')
<1> DEFINE n == Len(others)
           S == [R EXCEPT !.state = "close"]
<1>1. /\ others \in Seq(Rules(V, n)) /\ n \in Nat /\ cur \in 1..n /\ R \in Rules(V, n)
      /\ stack \in Seq(1..n)
  BY DEF Works
<1>2. S \in Rules(V, n)
  BY <1>1 DEF Rules, RuleSet, Placed
<1>3. rules' = [others EXCEPT ![cur] = S] /\ stack' = stack /\ cur' = cur
  BY DEF Stay
<1> HIDE DEF S
<1>4. rules' \in Seq(Rules(V, n)) /\ Len(rules') = n
  BY <1>1, <1>2, <1>3, ExceptSeq
<1>5. QED
  BY <1>1, <1>3, <1>4 DEF Left

LEMMA PopTyped ==
  ASSUME NEW V, NEW R, NEW others, NEW next, Works(V, R, others, stack, cur),
         Pop(R, others, next)
  PROVE  /\ Left(V, rules', stack', cur')
         /\ result' \in {result, R.node} /\ status' \in {status, "done", "error"}
<1> DEFINE n == Len(others)
<1>1. /\ others \in Seq(Rules(V, n)) /\ n \in Nat /\ cur \in 1..n /\ R \in Rules(V, n)
      /\ stack \in Seq(1..n)
  BY DEF Works
<1>2. rules' = [others EXCEPT ![cur] = R]
  BY DEF Pop
<1>3. rules' \in Seq(Rules(V, n)) /\ Len(rules') = n
  BY <1>1, <1>2, ExceptSeq
<1>4. CASE stack = << >>
  <2>1. cur' = 0 /\ stack' = stack /\ result' = R.node /\ status' \in {"done", "error"}
    BY <1>4 DEF Pop
  <2>2. QED
    BY <1>1, <1>3, <2>1 DEF Left
<1>5. CASE stack # << >>
  <2>1. /\ cur' = stack[Len(stack)] /\ stack' = SubSeq(stack, 1, Len(stack) - 1)
        /\ result' = result /\ status' = status
    BY <1>5 DEF Pop
  <2>2. Len(stack) \in 1..Len(stack) /\ Len(stack) - 1 \in 0..Len(stack)
    BY <1>1, <1>5, EmptySeq, LenProperties
  <2>3. cur' \in 1..n
    BY <1>1, <2>1, <2>2, ElementOfSeq
  <2>4. stack' \in Seq(1..n)
    BY <1>1, <2>1, <2>2, SubSeqProperties
  <2>5. QED
    BY <1>1, <1>3, <2>1, <2>3, <2>4 DEF Left
<1>6. QED
  BY <1>4, <1>5

(***************************************************************************)
(* Before and after a pass.                                                *)
(***************************************************************************)
LEMMA Grows ==
  ASSUME TypeInv, Extends(arena, arena'), at' = at \/ at' = at + 1
  PROVE  Value \subseteq Value' /\ Undefined \in Value'
<1>1. at \in Nat /\ at' \in Nat /\ at <= at'
  BY DEF TypeInv, Typed, InputTyped
<1>2. DOMAIN arena.nodes \subseteq DOMAIN arena'.nodes
  BY DEF Extends
<1>3. Values(arena, at) \subseteq Values(arena', at')
  BY <1>1, <1>2, ValuesGrow
<1>4. Undefined \in Values(arena', at')
  BY ValuesAre
<1>5. QED
  BY <1>3, <1>4 DEF Value

LEMMA TermsGrow ==
  ASSUME NEW a, NEW V, NEW W, V \subseteq W, TermsTyped(a, V)
  PROVE  TermsTyped(a, W)
BY SeqMonotonic DEF TermsTyped

LEMMA OnPass ==
  ASSUME TypeInv, NEW W, Value \subseteq W, Undefined \in W, cur # 0
  PROVE  Works(W, rules[cur], rules, stack, cur)
<1>1. /\ rules \in Seq(Rules(Value, Len(rules))) /\ Len(rules) \in Nat
      /\ stack \in Seq(1..Len(rules)) /\ cur \in 1..Len(rules)
  BY DEF TypeInv, Typed, StackTyped
<1>2. Rules(Value, Len(rules)) \subseteq Rules(W, Len(rules))
  BY <1>1, RulesGrow
<1>3. rules \in Seq(Rules(W, Len(rules)))
  BY <1>1, <1>2, SeqMonotonic
<1>4. rules[cur] \in Rules(W, Len(rules))
  BY <1>1, <1>3, ElementOfSeq
<1>5. QED
  BY <1>1, <1>3, <1>4 DEF Works

\* The node of a rule, and of a linked rule, is a value.
LEMMA NodesAre ==
  ASSUME TypeInv, NEW r \in 0..Len(rules)
  PROVE  NodeOf(r) \in Value /\ LinkedNode(r) \in Value
<1>1. rules \in Seq(Rules(Value, Len(rules))) /\ Len(rules) \in Nat
  BY DEF TypeInv, Typed, StackTyped
<1>2. CASE r = 0
  BY <1>2, ValuesAre DEF NodeOf, LinkedNode, Value
<1>3. CASE r # 0
  <2>1. rules[r] \in Rules(Value, Len(rules))
    BY <1>1, <1>3, ElementOfSeq
  <2>2. rules[r].node \in Value /\ rules[r].attach \in Value
    BY <2>1, Fields
  <2>3. QED
    BY <1>3, <2>2 DEF NodeOf, LinkedNode
<1>4. QED
  BY <1>2, <1>3

\* How a pass may end.
EndsPass(R, others) ==
  \/ \E name \in Names \ {"ternary"} : Push(R, name, others)
  \/ \E name \in Names \ {"paren"} : /\ name = "ternary" => DOMAIN Ternary # {}
                                    /\ Replace(R, name, others)
  \/ Stay(R, others)
  \/ \E next : Pop(R, others, next)

LEMMA LeftTyped ==
  ASSUME Left(Value', rules', stack', cur'), result' \in Value',
         status' \in {"run", "done", "error", "base", "cancel"}
  PROVE  StackTyped'
BY DEF StackTyped, Left, Rules, RuleSet, Placed, Names, Counters

LEMMA EndsTyped ==
  ASSUME TypeInv, status = "run", pratt' = NoCall, InputTyped',
         Value \subseteq Value', TermsTyped(arena', Value'),
         NEW R, NEW others, Works(Value', R, others, stack, cur), EndsPass(R, others)
  PROVE  Typed'
<1>1. result \in Value'
  BY DEF TypeInv, Typed, StackTyped
<1>2. Left(Value', rules', stack', cur')
  BY PushTyped, ReplaceTyped, StayTyped, PopTyped DEF EndsPass
<1>3. result' \in Value' /\ status' \in {"run", "done", "error"}
  <2>1. CASE \E next : Pop(R, others, next)
    <3>1. R.node \in Value'
      BY Fields DEF Works
    <3>2. QED
      BY <1>1, <2>1, <3>1, PopTyped
  <2>2. CASE ~ \E next : Pop(R, others, next)
    <3>1. result' = result /\ status' = status
      BY <2>2 DEF EndsPass, Push, Replace, Stay
    <3>2. QED
      BY <1>1, <3>1
  <2>3. QED
    BY <2>1, <2>2
<1>4. StackTyped'
  BY <1>2, <1>3, LeftTyped
<1>5. CallTyped'
  BY DEF CallTyped
<1>6. TermsTyped(arena, Value)'
  BY DEF TermsTyped
<1>7. QED
  BY <1>4, <1>5, <1>6 DEF Typed

LEMMA PassGrows ==
  ASSUME TypeInv, Extends(arena, arena'), cur # 0, Keep \/ (t0 \in Tokens /\ Consume)
  PROVE  /\ InputTyped' /\ Value \subseteq Value' /\ Undefined \in Value'
         /\ TermsTyped(arena, Value')
         /\ Works(Value', rules[cur], rules, stack, cur)
         /\ Leaf(at) \in Value' /\ \A i \in DOMAIN arena'.nodes : Handle(i) \in Value'
<1>1. InputTyped' /\ (at' = at \/ at' = at + 1)
  BY KeepTyped, ConsumeTyped DEF TypeInv, Typed
<1>2. Value \subseteq Value' /\ Undefined \in Value'
  BY <1>1, Grows
<1>3. TermsTyped(arena, Value')
  BY <1>2, TermsGrow DEF TypeInv, Typed
<1>4. Works(Value', rules[cur], rules, stack, cur)
  BY <1>2, OnPass
<1>5. Leaf(at) \in Value
  <2>1. at \in 1..at
    BY DEF TypeInv, Typed, InputTyped
  <2>2. QED
    BY <2>1, ValuesAre DEF Value
<1>6. \A i \in DOMAIN arena'.nodes : Handle(i) \in Value'
  BY ValuesAre DEF Value
<1>7. QED
  BY <1>1, <1>2, <1>3, <1>4, <1>5, <1>6

LEMMA HaltTyped ==
  ASSUME TypeInv, NEW how \in {"error", "base", "cancel"}, Halt(how)
  PROVE  Typed'
BY DEF TypeInv, Typed, Halt, TermsTyped, Value, InputTyped, StackTyped, CallTyped

(***************************************************************************)
(* val                                                                     *)
(***************************************************************************)
LEMMA ValConsumes ==
  ASSUME ValOpenAlt \in {"preval", "value"}
  PROVE  t0 \in Tokens
<1> DEFINE alts == <<
    << t0 \in DOMAIN Prefix, "prefix" >>,
    << t0 = Val /\ t1 \in ParenOpen /\ Opens(t1) \in PrevalActive, "preval" >>,
    << t0 \in ParenOpen /\ Opens(t0) \notin PrevalRequired, "paren" >>,
    << t0 = Val, "value" >>,
    << t0 = ZZ, "end" >>,
    << t0 \in ParenOpen \cup Separators, "base" >> >>
<1>1. ValOpenAlt = FirstMatch(alts) /\ DOMAIN alts = 1..6
  BY DEF ValOpenAlt
<1> HIDE DEF alts
<1>2. PICK i \in 1..6 : alts[i][1] /\ ValOpenAlt = alts[i][2]
  BY <1>1, FirstMatchHolds
<1>3. i = 1 \/ i = 2 \/ i = 3 \/ i = 4 \/ i = 5 \/ i = 6
  BY <1>2
<1>4. i = 2 \/ i = 4
  <2>1. /\ alts[1][2] = "prefix" /\ alts[3][2] = "paren"
        /\ alts[5][2] = "end" /\ alts[6][2] = "base"
    BY DEF alts
  <2>2. QED
    BY <1>2, <1>3, <2>1
<1>5. t0 = Val
  <2>1. CASE i = 2
    BY <1>2, <2>1 DEF alts
  <2>2. CASE i = 4
    BY <1>2, <2>2 DEF alts
  <2>3. QED
    BY <1>4, <2>1, <2>2
<1>6. QED
  BY <1>5 DEF Tokens

LEMMA ValOpenTyped ==
  ASSUME TypeInv, Extends(arena, arena'),
         ValOpenPrefix \/ ValOpenPreval \/ ValOpenParen \/ ValOpenValue \/ ValOpenEnd
  PROVE  Typed'
<1> DEFINE R == rules[cur]
<1>1. /\ arena' = arena /\ pratt' = NoCall /\ status = "run" /\ cur # 0
      /\ Keep \/ (t0 \in Tokens /\ Consume)
  BY ValConsumes DEF ValOpenPrefix, ValOpenPreval, ValOpenParen, ValOpenValue, ValOpenEnd,
     Passing
<1>2. /\ InputTyped' /\ Value \subseteq Value' /\ Undefined \in Value'
      /\ TermsTyped(arena', Value') /\ Works(Value', R, rules, stack, cur)
      /\ Leaf(at) \in Value'
  BY <1>1, PassGrows
<1> HIDE DEF R
<1>3. ASSUME NEW S \in Rules(Value', Len(rules)), EndsPass(S, rules)
      PROVE  Typed'
  BY <1>1, <1>2, <1>3, EndsTyped DEF Works
<1>4. R \in Rules(Value', Len(rules))
  BY <1>2 DEF Works
<1>5. CASE ValOpenPrefix
  <2> DEFINE c == [R.n EXCEPT !.prefix = R.n.prefix + 1, !.suffix = 0]
             S == [R EXCEPT !.n.prefix = @ + 1, !.n.suffix = 0]
  <2>1. R.n \in Counters
    BY <1>4, Fields
  <2>0. R.n.prefix + 1 \in Nat
    BY <2>1 DEF Counters
  <2>2. c \in Counters
    BY <2>1, <2>0 DEF Counters
  <2>3. S = [R EXCEPT !.n = c]
    BY <1>4 DEF Rules, RuleSet
  <2>4. S \in Rules(Value', Len(rules))
    BY <1>4, <2>2, <2>3, WithCounters
  <2>5. Push(S, "expr", rules)
    BY <1>5 DEF ValOpenPrefix, R
  <2> HIDE DEF S
  <2>6. QED
    BY <1>3, <2>4, <2>5 DEF EndsPass, Names
<1>6. CASE ValOpenPreval
  <2> DEFINE S == [R EXCEPT !.value = Leaf(at), !.node = Leaf(at), !.preval = TRUE]
  <2>1. S \in Rules(Value', Len(rules))
    BY <1>2, <1>4 DEF Rules, RuleSet, Placed, Leaf
  <2>2. Push(S, "expr", rules)
    BY <1>6 DEF ValOpenPreval, R
  <2> HIDE DEF S
  <2>3. QED
    BY <1>3, <2>1, <2>2 DEF EndsPass, Names
<1>7. CASE ValOpenParen
  <2>1. Push(R, "expr", rules)
    BY <1>7 DEF ValOpenParen, R
  <2>2. QED
    BY <1>3, <1>4, <2>1 DEF EndsPass, Names
<1>8. CASE ValOpenValue
  <2> DEFINE S == [R EXCEPT !.value = Leaf(at), !.node = Undefined]
  <2>1. S \in Rules(Value', Len(rules))
    BY <1>2, <1>4 DEF Rules, RuleSet, Placed, Leaf
  <2>2. Stay(S, rules)
    BY <1>8 DEF ValOpenValue, R
  <2> HIDE DEF S
  <2>3. QED
    BY <1>3, <2>1, <2>2 DEF EndsPass
<1>9. CASE ValOpenEnd
  <2>1. Stay(R, rules)
    BY <1>9 DEF ValOpenEnd, R
  <2>2. QED
    BY <1>3, <1>4, <2>1 DEF EndsPass
<1>10. QED
  BY <1>5, <1>6, <1>7, <1>8, <1>9

LEMMA CoalescedTyped ==
  ASSUME TypeInv, NEW V, Value \subseteq V, NEW n, NEW R \in Rules(V, n), R.child \in 0..Len(rules)
  PROVE  Coalesced(R) \in Rules(V, n)
<1>1. NodeOf(R.child) \in V
  BY NodesAre
<1>2. R.node \in V /\ R.value \in V
  BY Fields
<1>3. \E x \in V : Coalesced(R) = [R EXCEPT !.node = x]
  BY <1>1, <1>2 DEF Coalesced
<1>4. ASSUME NEW x \in V PROVE [R EXCEPT !.node = x] \in Rules(V, n)
  BY DEF Rules, RuleSet, Placed
<1>5. QED
  BY <1>3, <1>4

\* What the alternate a closing val or expr takes says of the next token: the
\* conditions are those of the first alternate of that name.
LEMMA ValCloseChosen ==
  ASSUME NEW V
  PROVE  /\ ValCloseAlt(V) = "ternary" => t0 \in Tern0
         /\ ValCloseAlt(V) = "infix" => t0 \in DOMAIN Infix
         /\ ValCloseAlt(V) = "suffix" => t0 \in DOMAIN Suffix
         /\ ValCloseAlt(V) = "chain" =>
              t0 \in ParenOpen /\ Opens(t0) \in PrevalActive /\ V.node # Undefined
         /\ ValCloseAlt(V) = "pop" =>
              ~(t0 \in ParenOpen /\ Opens(t0) \in PrevalActive /\ V.node # Undefined)
<1> DEFINE alts == <<
             << t0 \in Tern0 /\ V.n.expr = 0, "ternary" >>,
             << t0 \in DOMAIN Infix, "infix" >>,
             << t0 \in DOMAIN Suffix, "suffix" >>,
             << t0 \in ParenClose /\ V.n.paren # 0, "pop" >>,
             << t0 \in ParenOpen /\ Opens(t0) \in PrevalActive /\ V.node # Undefined, "chain" >>,
             << t0 \in Tern1 /\ V.n.ternary # 0, "pop" >>,
             << t0 \in {Val} \cup Separators /\ NoImplicitInExpr(V), "pop" >>,
             << t0 = ZZ, "pop" >>,
             << V.n.list = 0, "base" >>,
             << TRUE, "pop" >> >>
           chain == t0 \in ParenOpen /\ Opens(t0) \in PrevalActive /\ V.node # Undefined
<1>1. ValCloseAlt(V) = FirstMatch(alts) /\ DOMAIN alts = 1..10
  BY DEF ValCloseAlt
<1>2. /\ alts[1][2] = "ternary" /\ alts[2][2] = "infix" /\ alts[3][2] = "suffix"
      /\ alts[4][2] = "pop" /\ alts[5][2] = "chain" /\ alts[6][2] = "pop"
      /\ alts[7][2] = "pop" /\ alts[8][2] = "pop" /\ alts[9][2] = "base"
      /\ alts[10][2] = "pop"
  OBVIOUS
<1>3. /\ alts[1][1] => t0 \in Tern0
      /\ alts[2][1] => t0 \in DOMAIN Infix
      /\ alts[3][1] => t0 \in DOMAIN Suffix
      /\ alts[4][1] => t0 \in ParenClose
      /\ alts[5][1] <=> chain
  BY Zenon
<1>4. t0 \in ParenClose => ~chain
  BY TokensAssumption
<1> HIDE DEF alts, chain
<1>5. SUFFICES ASSUME FirstMatch(alts) # "none"
               PROVE  /\ FirstMatch(alts) = "ternary" => t0 \in Tern0
                      /\ FirstMatch(alts) = "infix" => t0 \in DOMAIN Infix
                      /\ FirstMatch(alts) = "suffix" => t0 \in DOMAIN Suffix
                      /\ FirstMatch(alts) = "chain" => chain
                      /\ FirstMatch(alts) = "pop" => ~chain
  BY <1>1 DEF chain
<1>6. PICK i \in 1..10 : /\ alts[i][1] /\ FirstMatch(alts) = alts[i][2]
                        /\ \A j \in 1..(i - 1) : ~alts[j][1]
  BY <1>1, <1>5, FirstMatchHolds
<1>7. i \in {1, 2, 3, 4, 5, 6, 7, 8, 9, 10}
  BY <1>6
<1>8. i \in {6, 7, 8, 9, 10} => ~chain
  <2>1. i \in {6, 7, 8, 9, 10} => 5 \in 1..(i - 1)
    OBVIOUS
  <2>2. QED
    BY <1>3, <1>6, <2>1
<1>9. QED
  BY <1>2, <1>3, <1>4, <1>6, <1>7, <1>8

LEMMA ExprCloseChosen ==
  ASSUME NEW E
  PROVE  /\ E.child # 0 /\ rules[E.child].name = "paren" => ExprCloseAlt(E) = "end"
         /\ ExprCloseAlt(E) = "expr" =>
              t0 \in DOMAIN Infix \cup DOMAIN Suffix /\ E.n.prefix = 0
         /\ ExprCloseAlt(E) = "ternary" => t0 \in Tern0
<1> DEFINE alts == <<
             << E.child # 0 /\ rules[E.child].name = "paren", "end" >>,
             << t0 \in DOMAIN Infix /\ E.n.prefix = 0, "expr" >>,
             << t0 \in DOMAIN Infix, "pop" >>,
             << t0 \in DOMAIN Suffix /\ E.n.prefix = 0, "expr" >>,
             << t0 \in ParenClose /\ E.n.paren # 0, "pop" >>,
             << t0 \in Tern0 /\ E.n.prefix = 0, "ternary" >>,
             << t0 \in {Val} \cup Separators /\ E.d = 0, "base" >>,
             << t0 \in Separators /\ InParen, "base" >>,
             << E.n.suffix <= 0 /\ t0 \notin DOMAIN Suffix /\ InParen, "base" >>,
             << TRUE, "end" >> >>
           paren == E.child # 0 /\ rules[E.child].name = "paren"
<1>1. ExprCloseAlt(E) = FirstMatch(alts) /\ DOMAIN alts = 1..10
  BY DEF ExprCloseAlt
<1>2. /\ alts[1][2] = "end" /\ alts[2][2] = "expr" /\ alts[3][2] = "pop"
      /\ alts[4][2] = "expr" /\ alts[5][2] = "pop" /\ alts[6][2] = "ternary"
      /\ alts[7][2] = "base" /\ alts[8][2] = "base" /\ alts[9][2] = "base"
      /\ alts[10][2] = "end"
  OBVIOUS
<1>3. /\ alts[1][1] <=> paren
      /\ alts[2][1] => t0 \in DOMAIN Infix /\ E.n.prefix = 0
      /\ alts[4][1] => t0 \in DOMAIN Suffix /\ E.n.prefix = 0
      /\ alts[6][1] => t0 \in Tern0
      /\ alts[10][1]
  BY Zenon
<1> HIDE DEF alts, paren
<1>4. FirstMatch(alts) # "none"
  BY <1>1, <1>2, <1>3 DEF FirstMatch
<1>5. PICK i \in 1..10 : /\ alts[i][1] /\ FirstMatch(alts) = alts[i][2]
                        /\ \A j \in 1..(i - 1) : ~alts[j][1]
  BY <1>1, <1>4, FirstMatchHolds
<1>6. i \in {1, 2, 3, 4, 5, 6, 7, 8, 9, 10}
  BY <1>5
<1>7. paren => i = 1
  <2>1. i # 1 => 1 \in 1..(i - 1)
    BY <1>6
  <2>2. QED
    BY <1>3, <1>5, <2>1
<1>8. QED
  BY <1>1, <1>2, <1>3, <1>5, <1>6, <1>7 DEF paren

LEMMA ValCloseTyped ==
  ASSUME TypeInv, Extends(arena, arena'),
         ValCloseTernary \/ ValCloseOperator \/ ValCloseChain \/ ValClosePop
  PROVE  Typed'
<1> DEFINE V == ValClosing
<1>1. arena' = arena /\ pratt' = NoCall /\ status = "run" /\ cur # 0 /\ Keep
  BY DEF ValCloseTernary, ValCloseOperator, ValCloseChain, ValClosePop, Passing
<1>2. /\ InputTyped' /\ Value \subseteq Value' /\ Undefined \in Value'
      /\ TermsTyped(arena', Value') /\ Works(Value', rules[cur], rules, stack, cur)
  BY <1>1, PassGrows
<1>3. V \in Rules(Value', Len(rules))
  <2>1. rules[cur] \in Rules(Value', Len(rules))
    BY <1>2 DEF Works
  <2>2. rules[cur].child \in 0..Len(rules)
    BY <2>1, Fields
  <2>3. QED
    BY <1>2, <2>1, <2>2, CoalescedTyped DEF ValClosing
<1> HIDE DEF V
<1>4. ASSUME NEW S \in Rules(Value', Len(rules)), EndsPass(S, rules)
      PROVE  Typed'
  BY <1>1, <1>2, <1>4, EndsTyped DEF Works
<1>5. CASE ValCloseTernary
  <2>1. Replace(V, "ternary", rules)
    BY <1>5 DEF ValCloseTernary, V
  <2>2. DOMAIN Ternary # {}
    <3>1. t0 \in Tern0
      BY <1>5, ValCloseChosen DEF ValCloseTernary
    <3>2. QED
      BY <3>1 DEF Tern0
  <2>3. QED
    BY <1>3, <1>4, <2>1, <2>2 DEF EndsPass, Names
<1>6. CASE ValCloseOperator
  <2> DEFINE S1 == [V EXCEPT !.n.prefix = 0, !.n.suffix = 0]
             S2 == [V EXCEPT !.n.prefix = 0, !.n.suffix = @ + 1]
             c1 == [V.n EXCEPT !.prefix = 0, !.suffix = 0]
             c2 == [V.n EXCEPT !.prefix = 0, !.suffix = V.n.suffix + 1]
  <2>1. V.n \in Counters
    BY <1>3, Fields
  <2>0. V.n.suffix + 1 \in Nat
    BY <2>1 DEF Counters
  <2>2. c1 \in Counters /\ c2 \in Counters
    BY <2>1, <2>0 DEF Counters
  <2>3. S1 = [V EXCEPT !.n = c1] /\ S2 = [V EXCEPT !.n = c2]
    BY <1>3, <2>1 DEF Rules, RuleSet, Counters
  <2>4. S1 \in Rules(Value', Len(rules)) /\ S2 \in Rules(Value', Len(rules))
    BY <1>3, <2>2, <2>3, WithCounters
  <2>5. \E S \in {S1, S2} : Replace(S, "expr", rules) \/ Pop(S, rules, t0)
    BY <1>6 DEF ValCloseOperator, V
  <2> HIDE DEF S1, S2
  <2>6. QED
    BY <1>4, <2>4, <2>5 DEF EndsPass, Names
<1>7. CASE ValCloseChain
  <2> DEFINE S == [V EXCEPT !.preval = TRUE]
  <2>1. S \in Rules(Value', Len(rules))
    BY <1>3 DEF Rules, RuleSet, Placed
  <2>2. Push(S, "expr", rules)
    BY <1>7 DEF ValCloseChain, V
  <2> HIDE DEF S
  <2>3. QED
    BY <1>4, <2>1, <2>2 DEF EndsPass, Names
<1>8. CASE ValClosePop
  <2>1. Pop(V, rules, t0)
    BY <1>8 DEF ValClosePop, V
  <2>2. QED
    BY <1>3, <1>4, <2>1 DEF EndsPass
<1>9. QED
  BY <1>5, <1>6, <1>7, <1>8

LEMMA ValTyped ==
  ASSUME TypeInv, Extends(arena, arena'), Val_
  PROVE  Typed'
<1>1. CASE ValOpenElsewhere
  BY <1>1, HaltTyped DEF ValOpenElsewhere
<1>2. QED
  BY <1>1, ValOpenTyped, ValCloseTyped DEF Val_

(***************************************************************************)
(* What the arena's operators do to the terms.                             *)
(***************************************************************************)
LEMMA AllocatesTyped ==
  ASSUME NEW a, NEW b, NEW V, NEW op, NEW token, NEW terms \in Seq(V), Sound(a),
         TermsTyped(a, V), Allocates(a, b, op, token, terms)
  PROVE  TermsTyped(b, V)
<1>1. Len(a.nodes) \in Nat /\ DOMAIN a.nodes = 1..Len(a.nodes)
  BY Nodes DEF Sound
<1>2. QED
  BY <1>1 DEF Allocates, SameCell, TermsTyped

LEMMA NewNodeTyped ==
  ASSUME NEW a, NEW V, NEW op, NEW token, NEW terms \in Seq(V), Sound(a), TermsTyped(a, V)
  PROVE  TermsTyped(NewNode(a, op, token, terms), V)
BY NewNodeAllocates, AllocatesTyped

LEMMA NewestTyped ==
  ASSUME NEW a, NEW V, NEW op, NEW token, NEW terms, Sound(a),
         \A i \in DOMAIN NewNode(a, op, token, terms).nodes : Handle(i) \in V
  PROVE  Newest(NewNode(a, op, token, terms)) \in V
<1> DEFINE b == NewNode(a, op, token, terms)
<1>1. Allocates(a, b, op, token, terms)
  BY NewNodeAllocates
<1>2. Len(a.nodes) \in Nat
  BY Nodes DEF Sound
<1>3. \A i \in DOMAIN b.nodes : Handle(i) \in V
  OBVIOUS
<1> HIDE DEF b
<1>4. Newest(b) \in V
  BY <1>1, <1>2, <1>3 DEF Allocates, Newest
<1>5. QED
  BY <1>4 DEF b

LEMMA OneTerm ==
  ASSUME NEW V, NEW v \in V
  PROVE  <<v>> \in Seq(V) /\ << >> \in Seq(V)
OBVIOUS

LEMMA WrapTyped ==
  ASSUME NEW a, NEW V, NEW v, NEW op, NEW token, Sound(a), Live(a, v), TermsTyped(a, V),
         \A i \in DOMAIN Wrap(a, v, op, token).nodes : Handle(i) \in V
  PROVE  TermsTyped(Wrap(a, v, op, token), V)
<1> DEFINE b   == Wrap(a, v, op, token)
           new == Len(a.nodes) + 1
<1>1. Wraps(a, b, v, op, token)
  BY WrapWraps
<1>2. Len(a.nodes) \in Nat /\ DOMAIN a.nodes = 1..Len(a.nodes) /\ v.id \in DOMAIN a.nodes
  BY Nodes DEF Sound, Live
<1>3. \A i \in DOMAIN b.nodes : Handle(i) \in V
  OBVIOUS
<1> HIDE DEF b
<1>4. <<Handle(new)>> \in Seq(V)
  <2>1. new \in DOMAIN b.nodes
    BY <1>1, <1>2 DEF Wraps
  <2>2. QED
    BY <1>3, <2>1, OneTerm
<1>5. TermsTyped(b, V)
  <2>1. b.nodes[v.id].terms = <<Handle(new)>>
    BY <1>1 DEF Wraps, SameCell
  <2>2. b.nodes[new].terms = a.nodes[v.id].terms
    BY <1>1 DEF Wraps, SameCell
  <2>3. \A i \in DOMAIN a.nodes \ {v.id} : b.nodes[i].terms = a.nodes[i].terms
    BY <1>1 DEF Wraps, SameCell
  <2>4. \A i \in DOMAIN b.nodes : i = v.id \/ i = new \/ i \in DOMAIN a.nodes \ {v.id}
    BY <1>1, <1>2 DEF Wraps
  <2> HIDE DEF new
  <2>5. QED
    BY <1>2, <1>4, <2>1, <2>2, <2>3, <2>4 DEF TermsTyped
<1>6. QED
  BY <1>5 DEF b

LEMMA RetermedTyped ==
  ASSUME NEW a, NEW b, NEW V, NEW v, NEW terms \in Seq(V), Live(a, v), TermsTyped(a, V),
         Retermed(a, b, v, terms)
  PROVE  TermsTyped(b, V)
BY DEF Retermed, Keeps, SameCell, Live, TermsTyped

LEMMA PushTermTyped ==
  ASSUME NEW a, NEW V, NEW v, NEW value \in V, Sound(a), TermsTyped(a, V)
  PROVE  TermsTyped(PushTerm(a, v, value), V)
<1>1. CASE Live(a, v)
  <2>1. a.nodes[v.id].terms \in Seq(V)
    BY <1>1 DEF Live, TermsTyped
  <2>2. Append(a.nodes[v.id].terms, value) \in Seq(V)
    BY <2>1, AppendProperties
  <2>3. Retermed(a, PushTerm(a, v, value), v, Append(a.nodes[v.id].terms, value))
    BY <1>1, PushTermKeeps
  <2>4. QED
    BY <1>1, <2>2, <2>3, RetermedTyped
<1>2. CASE ~Live(a, v)
  BY <1>2 DEF PushTerm, WithTerms, Adopt
<1>3. QED
  BY <1>1, <1>2

LEMMA SetTermTyped ==
  ASSUME NEW a, NEW V, NEW v, NEW i \in Nat, NEW value \in V, Undefined \in V,
         Sound(a), Live(a, v), TermsTyped(a, V)
  PROVE  TermsTyped(SetTerm(a, v, i, value), V)
<1> DEFINE old == a.nodes[v.id].terms
           len == IF Len(old) < i THEN i ELSE Len(old)
           new == [j \in 1..len |-> IF j = i THEN value ELSE Slot(old, j)]
<1>1. old \in Seq(V) /\ Len(old) \in Nat /\ DOMAIN old = 1..Len(old)
  BY LenProperties DEF Live, TermsTyped
<1>2. \A j : Slot(old, j) \in V
  BY <1>1, ElementOfSeq DEF Slot
<1>3. new \in Seq(V)
  <2>1. len \in Nat
    BY <1>1
  <2> HIDE DEF len, old
  <2>2. \A j \in 1..len : (IF j = i THEN value ELSE Slot(old, j)) \in V
    BY <1>2
  <2>3. QED
    BY <2>1, <2>2
<1>4. Retermed(a, SetTerm(a, v, i, value), v, new)
  BY SetTermKeeps
<1> HIDE DEF new
<1>5. QED
  BY <1>3, <1>4, RetermedTyped

(***************************************************************************)
(* expr: opening                                                           *)
(***************************************************************************)
LEMMA CountedTyped ==
  ASSUME NEW V, NEW n, NEW R \in Rules(V, n), NEW kind
  PROVE  Counted(R, kind) \in Rules(V, n) /\ Counted(R, kind).name = R.name
<1> DEFINE prefix == IF kind = "prefix" THEN R.n.prefix ELSE 0
           c == [R.n EXCEPT !.expr = R.n.expr + 1, !.list = R.n.list + 1, !.prefix = prefix]
<1>1. R.n \in Counters
  BY Fields
<1>2. R.n.expr + 1 \in Nat /\ R.n.list + 1 \in Nat /\ prefix \in Nat
  BY <1>1 DEF Counters
<1> HIDE DEF prefix
<1>3. c \in Counters
  BY <1>1, <1>2 DEF Counters
<1>4. Counted(R, kind) = [R EXCEPT !.n = c]
  BY <1>1 DEF Counted, Rules, RuleSet, Counters, prefix
<1> HIDE DEF c
<1>5. QED
  BY <1>3, <1>4, WithCounters DEF Rules, RuleSet

LEMMA Reparented ==
  ASSUME NEW V, NEW n, NEW R \in Rules(V, n), R.name = "expr", NEW p \in 0..n
  PROVE  [R EXCEPT !.parent = p] \in Rules(V, n) /\ [R EXCEPT !.parent = p].name = "expr"
BY DEF Rules, RuleSet, Placed

LEMMA PublishEnds ==
  ASSUME NEW V, NEW n, NEW R \in Rules(V, n), R.name = "expr", NEW kind, NEW attach \in V,
         NEW others, Publish(R, kind, attach, others)
  PROVE  \E S \in Rules(V, n) : EndsPass(S, others)
<1> DEFINE P == [R EXCEPT !.node = attach, !.attach = attach]
<1>1. P \in Rules(V, n)
  BY DEF Rules, RuleSet, Placed
<1>2. Stay(P, others) \/ Push(P, "val", others)
  BY DEF Publish
<1> HIDE DEF P
<1>3. QED
  BY <1>1, <1>2 DEF EndsPass, Names

LEMMA LinkedTyped ==
  ASSUME NEW V, NEW R, Works(V, R, rules, stack, cur), NEW prior \in 0..Len(rules),
         NEW node \in V, NEW wraps, NEW S \in Rules(V, Len(rules))
  PROVE  Works(V, S, PriorLinked(prior, node, wraps), stack, cur)
<1> DEFINE n == Len(rules)
           others == PriorLinked(prior, node, wraps)
<1>1. rules \in Seq(Rules(V, n)) /\ n \in Nat
  BY DEF Works
<1>2. others \in Seq(Rules(V, n)) /\ Len(others) = n
  <2>1. CASE others = rules
    BY <1>1, <2>1
  <2>2. CASE others # rules
    <3>1. others = [rules EXCEPT ![prior].node = node] /\ prior \in 1..n
      BY <1>1, <2>2 DEF PriorLinked
    <3>2. rules[prior] \in Rules(V, n)
      BY <1>1, <3>1, ElementOfSeq
    <3>3. [rules[prior] EXCEPT !.node = node] \in Rules(V, n)
      BY <3>2 DEF Rules, RuleSet, Placed
    <3>4. others = [rules EXCEPT ![prior] = [rules[prior] EXCEPT !.node = node]]
      BY <3>1
    <3> HIDE DEF others, n
    <3>5. QED
      BY <1>1, <3>1, <3>3, <3>4, ExceptSeq DEF n
  <2>3. QED
    BY <2>1, <2>2
<1> HIDE DEF others
<1>3. QED
  BY <1>2 DEF Works, others

LEMMA ConsumesOperator ==
  ASSUME ExprOpenAlt \in DOMAIN Opening
  PROVE  t0 \in Tokens
BY OpensOnOperator DEF Opening, Tokens

LEMMA TargetTyped ==
  ASSUME TypeInv, NEW R, {R.parent, R.prev} \subseteq 0..Len(rules), NEW kind \in DOMAIN Opening
  PROVE  EmbedTarget(R, kind) \in Value
<1>1. LinkedNode(R.parent) \in Value /\ LinkedNode(R.prev) \in Value
  BY NodesAre
<1>2. Undefined \in Value
  BY ValuesAre DEF Value
<1>3. kind = "prefix" \/ kind = "infix" \/ kind = "suffix"
  BY DEF Opening
<1>4. QED
  BY <1>1, <1>2, <1>3 DEF EmbedTarget, FoldTarget

LEMMA ParenOpenTyped ==
  ASSUME TypeInv, Extends(arena, arena'), ExprOpenParen
  PROVE  Typed'
<1>1. /\ arena' = arena /\ pratt' = NoCall /\ status = "run" /\ cur # 0 /\ Keep
      /\ Push(rules[cur], "paren", rules)
  BY DEF ExprOpenParen, Passing
<1>2. /\ InputTyped' /\ Value \subseteq Value' /\ TermsTyped(arena', Value')
      /\ Works(Value', rules[cur], rules, stack, cur)
  BY <1>1, PassGrows
<1>3. EndsPass(rules[cur], rules)
  BY <1>1 DEF EndsPass, Names
<1>4. QED
  BY <1>1, <1>2, <1>3, EndsTyped

LEMMA EmbedTyped ==
  ASSUME TypeInv, Extends(arena, arena'), ExprOpenEmbed
  PROVE  Typed'
<1> DEFINE kind   == ExprOpenAlt
           R      == rules[cur]
           target == EmbedTarget(R, kind)
           S      == IF kind = "infix" /\ UnaryFirst(R)
                     THEN [Counted(R, kind) EXCEPT !.parent = R.prev]
                     ELSE Counted(R, kind)
           n      == Len(rules)
<1>1. /\ kind \in DOMAIN Opening /\ Consume /\ arena' = arena
      /\ stack' = stack /\ cur' = cur /\ status' = status /\ result' = result
      /\ pratt' = [kind |-> kind, op |-> OpUsed(kind), token |-> at,
                   root |-> target, expr |-> target]
      /\ rules' = [rules EXCEPT ![cur] = S]
      /\ cur # 0 /\ R.name = "expr" /\ status = "run"
  BY DEF ExprOpenEmbed, Passing
<1>2. /\ InputTyped' /\ Value \subseteq Value' /\ TermsTyped(arena', Value')
      /\ Works(Value', R, rules, stack, cur)
  BY <1>1, ConsumesOperator, PassGrows
<1>3. /\ rules \in Seq(Rules(Value', n)) /\ R \in Rules(Value', n) /\ cur \in 1..n
      /\ stack \in Seq(1..n) /\ n \in Nat
  BY <1>2 DEF Works
<1>4. {R.parent, R.prev} \subseteq 0..n
  BY <1>3, Fields
<1>5. target \in Value'
  BY <1>1, <1>2, <1>4, TargetTyped
<1>6. S \in Rules(Value', n) /\ S.name = "expr"
  BY <1>1, <1>3, <1>4, CountedTyped, Reparented
<1> HIDE DEF S, target, kind, R, n
<1>7. rules' \in Seq(Rules(Value', n)) /\ Len(rules') = n
  BY <1>1, <1>3, <1>6, ExceptSeq DEF n
<1>8. result \in Value' /\ status \in {"run", "done", "error", "base", "cancel"}
  BY <1>2 DEF TypeInv, Typed, StackTyped
<1>9. StackTyped'
  <2>1. Left(Value', rules', stack', cur')
    BY <1>1, <1>3, <1>7 DEF Left
  <2>2. QED
    BY <1>1, <1>8, <2>1, LeftTyped
<1>10. CallTyped'
  <2>1. IsSeq(rules) /\ cur \in DOMAIN rules
    BY <1>3, LenProperties DEF IsSeq, n
  <2>2. rules'[cur] = S
    BY <1>1, <2>1, SeqExcept
  <2>3. QED
    BY <1>1, <1>5, <1>6, <2>2 DEF CallTyped
<1>11. TermsTyped(arena, Value)'
  BY <1>2 DEF TermsTyped
<1>12. QED
  BY <1>2, <1>9, <1>10, <1>11 DEF Typed

LEMMA PriorTyped ==
  ASSUME TypeInv, Extends(arena, arena'), Sound(arena'), ExprOpenPrior
  PROVE  Typed'
<1> DEFINE kind  == ExprOpenAlt
           R     == rules[cur]
           prior == IF kind = "prefix" THEN R.parent ELSE R.prev
           value == NodeOf(prior)
           wraps == IsOp(arena, value) /\ kind # "prefix"
           S     == IF prior = 0 THEN Counted(R, kind)
                    ELSE [Counted(R, kind) EXCEPT !.parent = prior]
           terms == IF kind = "prefix" THEN << >> ELSE <<value>>
           node  == IF wraps THEN value ELSE Newest(arena')
           n     == Len(rules)
<1>1. /\ kind \in DOMAIN Opening /\ Consume /\ pratt' = NoCall
      /\ arena' = IF wraps THEN Wrap(arena, value, OpUsed(kind), at)
                  ELSE NewNode(arena, OpUsed(kind), at, terms)
      /\ Publish(S, kind, node, PriorLinked(prior, node, wraps))
      /\ cur # 0 /\ R.name = "expr" /\ status = "run"
  BY DEF ExprOpenPrior, Passing
<1>2. /\ InputTyped' /\ Value \subseteq Value' /\ TermsTyped(arena, Value')
      /\ Works(Value', R, rules, stack, cur)
      /\ \A i \in DOMAIN arena'.nodes : Handle(i) \in Value'
  BY <1>1, ConsumesOperator, PassGrows
<1>3. R \in Rules(Value', n)
  BY <1>2 DEF Works
<1>4. {R.parent, R.prev} \subseteq 0..n
  BY <1>3, Fields
<1>5. prior \in 0..n /\ value \in Value'
  BY <1>2, <1>4, NodesAre
<1>6. S \in Rules(Value', n) /\ S.name = "expr"
  BY <1>1, <1>3, <1>5, CountedTyped, Reparented
<1> HIDE DEF S, R, n
<1>7. TermsTyped(arena', Value')
  <2>1. CASE wraps
    <3>1. Live(arena, value) /\ arena' = Wrap(arena, value, OpUsed(kind), at)
      BY <1>1, <2>1 DEF IsOp
    <3> HIDE DEF value, kind
    <3>2. QED
      BY <1>2, <3>1, WrapTyped DEF TypeInv, PrattInv
  <2>2. CASE ~wraps
    <3>1. terms \in Seq(Value')
      BY <1>5, OneTerm
    <3>2. arena' = NewNode(arena, OpUsed(kind), at, terms)
      BY <1>1, <2>2
    <3> HIDE DEF terms, kind
    <3>3. QED
      BY <1>2, <3>1, <3>2, NewNodeTyped DEF TypeInv, PrattInv
  <2>3. QED
    BY <2>1, <2>2
<1>8. node \in Value'
  <2>1. CASE wraps
    BY <1>5, <2>1
  <2>2. CASE ~wraps
    <3>1. arena' = NewNode(arena, OpUsed(kind), at, terms)
      BY <1>1, <2>2
    <3> HIDE DEF terms, kind
    <3>2. Newest(arena') \in Value'
      BY <1>2, <3>1, NewestTyped DEF TypeInv, PrattInv
    <3>3. QED
      BY <2>2, <3>2
  <2>3. QED
    BY <2>1, <2>2
<1> HIDE DEF node, prior, wraps, kind
<1>9. PICK P \in Rules(Value', n) : EndsPass(P, PriorLinked(prior, node, wraps))
  BY <1>1, <1>6, <1>8, PublishEnds
<1>10. Works(Value', P, PriorLinked(prior, node, wraps), stack, cur)
  BY <1>2, <1>5, <1>8, <1>9, LinkedTyped DEF n
<1>11. QED
  BY <1>1, <1>2, <1>7, <1>9, <1>10, EndsTyped

(***************************************************************************)
(* The Pratt core.                                                         *)
(***************************************************************************)
LEMMA TableTerms == \A op \in BracketOps \cup OperandOps : op.terms \in 1..3
BY DEF BracketOps, OperandOps, TernaryOp, ParenOp, PrefixOp, InfixOp, SuffixOp, Powered

LEMMA LastTyped ==
  ASSUME TypeInv, Pratting
  PROVE  /\ LastPos \in Nat /\ Live(arena, pratt.expr)
         /\ TermAt(arena, pratt.expr, LastPos) \in Value
<1>1. Live(arena, pratt.expr) /\ FromTable(arena) /\ TermsTyped(arena, Value)
  BY DEF TypeInv, PrattInv, CallOK, Typed, Pratting
<1>2. arena.nodes[pratt.expr.id].op \in BracketOps \cup OperandOps
  BY <1>1 DEF Live, FromTable
<1>3. LastPos \in Nat
  BY <1>1, <1>2, TableTerms DEF LastPos, InExpr, OpOf
<1>4. Undefined \in Value
  BY ValuesAre DEF Value
<1>5. arena.nodes[pratt.expr.id].terms \in Seq(Value)
  BY <1>1 DEF Live, TermsTyped
<1>6. TermAt(arena, pratt.expr, LastPos) \in Value
  BY <1>1, <1>4, <1>5, ElementOfSeq, LenProperties DEF TermAt, Terms
<1>7. QED
  BY <1>1, <1>3, <1>6

LEMMA DrillTyped ==
  ASSUME TypeInv, PrattDrill
  PROVE  Typed'
<1>1. /\ input' = input /\ at' = at /\ arena' = arena /\ rules' = rules /\ stack' = stack
      /\ cur' = cur /\ status' = status /\ result' = result
      /\ Pratting /\ pratt' = [pratt EXCEPT !.expr = TermAt(arena, pratt.expr, LastPos)]
  BY DEF PrattDrill
<1>2. TermAt(arena, pratt.expr, LastPos) \in Value
  BY <1>1, LastTyped
<1>3. /\ pratt = [kind |-> pratt.kind, op |-> pratt.op, token |-> pratt.token,
                  root |-> pratt.root, expr |-> pratt.expr]
      /\ cur # 0 /\ pratt.root \in Value /\ rules[cur].name = "expr"
  BY <1>1 DEF Pratting, TypeInv, PrattInv, CallOK, Typed, CallTyped
<1>4. CallTyped'
  BY <1>1, <1>2, <1>3 DEF CallTyped, Value
<1>5. (TermsTyped(arena, Value) /\ InputTyped /\ StackTyped)'
  BY <1>1 DEF TypeInv, Typed, TermsTyped, Value, InputTyped, StackTyped
<1>6. QED
  BY <1>4, <1>5 DEF Typed

\* However the core puts the operator in, it publishes a value.
LEMMA ReturnTyped ==
  ASSUME TypeInv, Extends(arena, arena'), Pratting, NEW out \in Value', PrattReturn(out),
         TermsTyped(arena, Value') => TermsTyped(arena', Value')
  PROVE  Typed'
<1> DEFINE R      == rules[cur]
           attach == IF pratt.kind = "suffix" THEN pratt.root ELSE out
<1>1. /\ pratt' = NoCall /\ Keep /\ Publish(R, pratt.kind, attach, rules)
      /\ status = "run" /\ cur # 0 /\ pratt.root \in Value /\ R.name = "expr"
  BY DEF PrattReturn, Pratting, TypeInv, Typed, CallTyped
<1>2. /\ InputTyped' /\ Value \subseteq Value' /\ TermsTyped(arena', Value')
      /\ Works(Value', R, rules, stack, cur)
  BY <1>1, PassGrows
<1>3. R \in Rules(Value', Len(rules)) /\ attach \in Value'
  BY <1>1, <1>2 DEF Works
<1> HIDE DEF R, attach
<1>4. PICK S \in Rules(Value', Len(rules)) : EndsPass(S, rules)
  BY <1>1, <1>3, PublishEnds
<1>5. Works(Value', S, rules, stack, cur)
  BY <1>2, <1>4 DEF Works
<1>6. QED
  BY <1>1, <1>2, <1>4, <1>5, EndsTyped

LEMMA BelowTyped ==
  ASSUME NEW a, NEW V, NEW op, NEW token, NEW terms \in Seq(V), NEW v, NEW i \in Nat,
         Sound(a), TermsTyped(a, V), Live(a, v), Undefined \in V,
         LET b == NewNodeUnder(a, op, token, terms, v)
         IN  \A j \in DOMAIN SetTerm(b, v, i, Newest(b)).nodes : Handle(j) \in V
  PROVE  LET b == NewNodeUnder(a, op, token, terms, v)
         IN  Newest(b) \in V /\ TermsTyped(SetTerm(b, v, i, Newest(b)), V)
<1> DEFINE b == NewNodeUnder(a, op, token, terms, v)
           c == SetTerm(b, v, i, Newest(b))
<1>1. /\ Allocates(a, b, op, token, terms) /\ Live(b, v) /\ Sound(b)
      /\ \E new : Retermed(b, c, v, new)
  BY BelowRetermed, NewNodeUnderSound
<1>2. \A j \in DOMAIN c.nodes : Handle(j) \in V
  OBVIOUS
<1>3. Len(a.nodes) \in Nat
  BY Nodes DEF Sound
<1> HIDE DEF b
<1>4. Len(b.nodes) \in DOMAIN b.nodes
  BY <1>1, <1>3 DEF Allocates
<1>5. DOMAIN c.nodes = DOMAIN b.nodes
  BY <1>1 DEF Retermed, Keeps
<1>6. Newest(b) \in V
  BY <1>2, <1>4, <1>5 DEF Newest
<1>7. TermsTyped(b, V)
  BY <1>1, AllocatesTyped
<1>8. TermsTyped(c, V)
  BY <1>1, <1>6, <1>7, SetTermTyped
<1>9. QED
  BY <1>6, <1>8 DEF b

LEMMA PrattTyped ==
  ASSUME TypeInv, Extends(arena, arena'), PrattLooser \/ PrattTighter \/ PrattPrefix
  PROVE  Typed'
<1> DEFINE last == TermAt(arena, pratt.expr, LastPos)
<1>1. Pratting
  BY DEF PrattLooser, PrattTighter, PrattPrefix
<1>2. /\ Sound(arena) /\ Live(arena, pratt.expr) /\ LastPos \in Nat /\ last \in Value
      /\ pratt.expr \in Value /\ cur # 0
  BY <1>1, LastTyped DEF TypeInv, PrattInv, Typed, CallTyped, Pratting
<1>3. Keep
  BY DEF PrattLooser, PrattTighter, PrattPrefix, PrattReturn
<1>4. /\ Value \subseteq Value' /\ Undefined \in Value'
      /\ \A i \in DOMAIN arena'.nodes : Handle(i) \in Value'
  BY <1>2, <1>3, PassGrows
<1>5. CASE PrattLooser
  <2>1. arena' = Wrap(arena, pratt.expr, pratt.op, pratt.token) /\ PrattReturn(pratt.expr)
    BY <1>5 DEF PrattLooser
  <2>2. TermsTyped(arena, Value') => TermsTyped(arena', Value')
    BY <1>2, <1>4, <2>1, WrapTyped
  <2>3. pratt.expr \in Value'
    BY <1>2, <1>4
  <2>4. QED
    BY <1>1, <2>1, <2>2, <2>3, ReturnTyped
<1>6. ASSUME NEW terms \in Seq(Value'),
             LET b == NewNodeUnder(arena, pratt.op, pratt.token, terms, pratt.expr)
             IN  /\ arena' = SetTerm(b, pratt.expr, LastPos, Newest(b))
                 /\ PrattReturn(Newest(b))
      PROVE  Typed'
  <2> DEFINE b == NewNodeUnder(arena, pratt.op, pratt.token, terms, pratt.expr)
  <2>1. arena' = SetTerm(b, pratt.expr, LastPos, Newest(b)) /\ PrattReturn(Newest(b))
    BY <1>6
  <2>2. TermsTyped(arena, Value')
    BY <1>2, <1>3, PassGrows
  <2>3. Newest(b) \in Value' /\ TermsTyped(arena', Value')
    BY <1>2, <1>4, <2>1, <2>2, BelowTyped
  <2> HIDE DEF b
  <2>4. QED
    BY <1>1, <2>1, <2>3, ReturnTyped
<1>7. CASE PrattTighter
  <2>1. <<last>> \in Seq(Value')
    BY <1>2, <1>4, OneTerm
  <2>2. QED
    BY <1>6, <1>7, <2>1 DEF PrattTighter
<1>8. CASE PrattPrefix
  <2>1. << >> \in Seq(Value')
    BY <1>4, OneTerm
  <2>2. QED
    BY <1>6, <1>8, <2>1 DEF PrattPrefix
<1>9. QED
  BY <1>5, <1>7, <1>8

(***************************************************************************)
(* expr: closing                                                           *)
(***************************************************************************)
LEMMA CompletedTyped ==
  ASSUME TypeInv, NEW V, Value \subseteq V, TermsTyped(arena, V),
         NEW E, E.child \in 0..Len(rules)
  PROVE  TermsTyped(Completed(E), V)
<1>1. NodeOf(E.child) \in V
  BY NodesAre
<1>2. QED
  BY <1>1, PushTermTyped DEF Completed, TypeInv, PrattInv

LEMMA RootedTyped ==
  ASSUME NEW a, Sound(a), NEW V, NEW n, NEW E \in Rules(V, n),
         \A i \in DOMAIN a.nodes : Handle(i) \in V
  PROVE  Rooted(a, E) \in Rules(V, n)
<1>1. CASE ~IsOp(a, E.node)
  BY <1>1 DEF Rooted
<1>2. CASE IsOp(a, E.node)
  <2>1. E.node.id \in DOMAIN a.nodes
    BY <1>2 DEF IsOp, Live
  <2>2. RootOf(a, E.node) \in DOMAIN a.nodes
    BY <2>1 DEF Sound, WellRooted, RootOf
  <2>3. Handle(RootOf(a, E.node)) \in V
    BY <2>2
  <2>4. QED
    BY <1>2, <2>3 DEF Rooted, Rules, RuleSet, Placed
<1>3. QED
  BY <1>1, <1>2

\* The expression goes on: its new rule is seeded with the attachment point.
LEMMA CloseReplaceTyped ==
  ASSUME TypeInv, Extends(arena, arena'), Sound(arena'), ExprCloseReplace
  PROVE  Typed'
<1> DEFINE E   == rules[cur]
           n   == Len(rules)
           S   == Rooted(arena', E)
           rs  == [rules EXCEPT ![cur] = S]
           new == Rule(ExprCloseAlt(E), E.node, E.n, E.parent, cur, E.d)
           T   == Rules(Value', n + 1)
<1>1. /\ arena' = Completed(E) /\ rules' = Append(rs, new) /\ cur' = n + 1
      /\ Keep /\ stack' = stack /\ pratt' = pratt /\ status' = status /\ result' = result
      /\ status = "run" /\ pratt = NoCall /\ cur # 0
      /\ ExprCloseAlt(E) = "expr" \/ ExprCloseAlt(E) = "ternary"
  BY DEF ExprCloseReplace, Passing
<1>2. /\ InputTyped' /\ Value \subseteq Value' /\ Undefined \in Value'
      /\ TermsTyped(arena, Value') /\ Works(Value', E, rules, stack, cur)
      /\ \A i \in DOMAIN arena'.nodes : Handle(i) \in Value'
  BY <1>1, PassGrows
<1>3. /\ rules \in Seq(Rules(Value', n)) /\ n \in Nat /\ cur \in 1..n
      /\ E \in Rules(Value', n) /\ stack \in Seq(1..n)
  BY <1>2 DEF Works
<1>4. Rules(Value', n) \subseteq T
  BY <1>3, RulesGrow
<1>5. S \in T
  BY <1>2, <1>3, <1>4, RootedTyped
<1>6. new \in T
  <2>1. E.node \in Value' /\ E.n \in Counters /\ E.d \in Nat /\ E.parent \in 0..(n + 1)
    BY <1>3, <1>4 DEF Rules, RuleSet
  <2>2. n + 1 \in Nat /\ cur \in 0..(n + 1) /\ cur # 0
    BY <1>3
  <2>3. ExprCloseAlt(E) \in Names /\ ExprCloseAlt(E) # "paren"
    BY <1>1 DEF Names
  <2>4. ExprCloseAlt(E) = "ternary" => DOMAIN Ternary # {}
    BY ExprCloseChosen DEF Tern0
  <2>5. QED
    BY <1>2, <2>1, <2>2, <2>3, <2>4, RuleTyped
<1>7. TermsTyped(arena', Value')
  <2>1. E.child \in 0..n
    BY <1>3, Fields
  <2>2. QED
    BY <1>1, <1>2, <2>1, CompletedTyped
<1>8. result \in Value
  BY DEF TypeInv, Typed, StackTyped
<1> HIDE DEF S, new, T, n
<1>9. rules \in Seq(T) /\ Len(rules) = n
  BY <1>3, <1>4, SeqMonotonic DEF n
<1>10. rs \in Seq(T) /\ Len(rs) = n
  BY <1>3, <1>5, <1>9, ExceptSeq
<1> HIDE DEF rs, E
<1>11. rules' \in Seq(T) /\ Len(rules') = n + 1
  BY <1>1, <1>6, <1>10, AppendProperties
<1>12. stack' \in Seq(1..(n + 1))
  BY <1>1, <1>3, SeqMonotonic
<1>13. Left(Value', rules', stack', cur')
  BY <1>1, <1>3, <1>11, <1>12 DEF Left, T
<1>14. StackTyped'
  BY <1>1, <1>2, <1>8, <1>13, LeftTyped
<1>15. CallTyped' /\ TermsTyped(arena, Value)'
  BY <1>1, <1>7 DEF CallTyped, TermsTyped
<1>16. QED
  BY <1>2, <1>14, <1>15 DEF Typed

LEMMA ClosePopTyped ==
  ASSUME TypeInv, Extends(arena, arena'), Sound(arena'), ExprClosePop \/ ExprCloseEnd
  PROVE  Typed'
<1> DEFINE E == rules[cur]
           F == IF ExprClosePop THEN E ELSE [E EXCEPT !.n.expr = 0]
<1>1. /\ arena' = Completed(E) /\ Pop(Rooted(arena', F), rules, t0) /\ Keep
      /\ pratt' = NoCall /\ status = "run" /\ cur # 0
  BY DEF ExprClosePop, ExprCloseEnd, Passing
<1>2. /\ InputTyped' /\ Value \subseteq Value' /\ TermsTyped(arena, Value')
      /\ Works(Value', E, rules, stack, cur)
      /\ \A i \in DOMAIN arena'.nodes : Handle(i) \in Value'
  BY <1>1, PassGrows
<1>3. E \in Rules(Value', Len(rules))
  BY <1>2 DEF Works
<1>4. F \in Rules(Value', Len(rules))
  <2> DEFINE c == [E.n EXCEPT !.expr = 0]
  <2>1. E.n \in Counters
    BY <1>3, Fields
  <2>2. c \in Counters
    BY <2>1 DEF Counters
  <2>3. [E EXCEPT !.n.expr = 0] = [E EXCEPT !.n = c]
    OBVIOUS
  <2>4. QED
    BY <1>3, <2>2, <2>3, WithCounters
<1> HIDE DEF F
<1>5. Rooted(arena', F) \in Rules(Value', Len(rules))
  BY <1>2, <1>4, RootedTyped
<1>6. TermsTyped(arena', Value')
  <2>1. E.child \in 0..Len(rules)
    BY <1>3, Fields
  <2>2. QED
    BY <1>1, <1>2, <2>1, CompletedTyped
<1>7. Works(Value', Rooted(arena', F), rules, stack, cur)
  BY <1>2, <1>5 DEF Works
<1>8. EndsPass(Rooted(arena', F), rules)
  BY <1>1 DEF EndsPass
<1>9. QED
  BY <1>1, <1>2, <1>6, <1>7, <1>8, EndsTyped

\* A list begins: the arena takes the last term, and the rules stand still.
LEMMA StandsTyped ==
  ASSUME TypeInv, Extends(arena, arena'), Keep, cur # 0,
         TermsTyped(arena, Value') => TermsTyped(arena', Value'),
         rules' = rules, stack' = stack, cur' = cur, pratt' = NoCall, result' = result,
         status' \in {"run", "done", "error", "base", "cancel"}
  PROVE  Typed'
<1>1. /\ InputTyped' /\ Value \subseteq Value' /\ TermsTyped(arena', Value')
      /\ Works(Value', rules[cur], rules, stack, cur)
  BY PassGrows
<1>2. Left(Value', rules', stack', cur')
  BY <1>1 DEF Works, Left
<1>3. result' \in Value'
  BY <1>1 DEF TypeInv, Typed, StackTyped
<1>4. StackTyped'
  BY <1>2, <1>3, LeftTyped
<1>5. CallTyped' /\ TermsTyped(arena, Value)'
  BY <1>1 DEF CallTyped, TermsTyped
<1>6. QED
  BY <1>1, <1>4, <1>5 DEF Typed

LEMMA CloseBaseTyped ==
  ASSUME TypeInv, Extends(arena, arena'), ExprCloseBase
  PROVE  Typed'
<1>1. /\ arena' = Completed(rules[cur]) /\ Keep /\ cur # 0 /\ rules' = rules /\ stack' = stack
      /\ cur' = cur /\ pratt' = NoCall /\ result' = result /\ status' = "base"
  BY DEF ExprCloseBase, Passing
<1>2. /\ Value \subseteq Value' /\ Undefined \in Value' /\ TermsTyped(arena, Value')
      /\ Works(Value', rules[cur], rules, stack, cur)
  BY <1>1, PassGrows
<1>3. rules[cur].child \in 0..Len(rules)
  BY <1>2, Fields DEF Works
<1>4. TermsTyped(arena', Value')
  BY <1>1, <1>2, <1>3, CompletedTyped
<1>5. QED
  BY <1>1, <1>4, StandsTyped

(***************************************************************************)
(* paren                                                                   *)
(***************************************************************************)
LEMMA ParenConsumes ==
  ASSUME ParenOpenAlt \in {"empty", "open"}
  PROVE  t0 \in Tokens /\ Opens(t0) \in DOMAIN Paren
<1> DEFINE alts == <<
    << t0 \in ParenOpen /\ t1 \in ParenClose /\ Opens(t0) = Closes(t1), "empty" >>,
    << t0 \in ParenOpen, "open" >> >>
<1>1. ParenOpenAlt = FirstMatch(alts) /\ DOMAIN alts = 1..2
  BY DEF ParenOpenAlt
<1> HIDE DEF alts
<1>2. PICK i \in 1..2 : alts[i][1]
  BY <1>1, FirstMatchHolds
<1>3. i = 1 \/ i = 2
  BY <1>2
<1>4. t0 \in ParenOpen
  <2>1. CASE i = 1
    BY <1>2, <2>1 DEF alts
  <2>2. CASE i = 2
    BY <1>2, <2>2 DEF alts
  <2>3. QED
    BY <1>3, <2>1, <2>2
<1>5. \E n \in DOMAIN Paren : Paren[n].open = t0
  BY <1>4 DEF ParenOpen
<1>6. QED
  BY <1>4, <1>5 DEF Tokens, Opens

LEMMA ParenOpeningTyped ==
  ASSUME TypeInv, Extends(arena, arena'), ParenOpenEmpty \/ ParenOpenVal
  PROVE  Typed'
<1> DEFINE R    == rules[cur]
           name == Opens(t0)
           S    == Opened(name)
           U    == [S EXCEPT !.n.paren = @ + 1, !.n.expr = 0, !.n.prefix = 0, !.n.suffix = 0]
           c    == [R.n EXCEPT !.list = 0, !.depth = R.n.depth \cup {name}]
           d    == [c EXCEPT !.paren = c.paren + 1, !.expr = 0, !.prefix = 0, !.suffix = 0]
<1>1. /\ arena' = arena /\ pratt' = NoCall /\ status = "run" /\ cur # 0 /\ Consume
      /\ ParenOpenAlt \in {"empty", "open"}
      /\ Stay(S, rules) \/ Push(U, "val", rules)
  BY DEF ParenOpenEmpty, ParenOpenVal, Passing
<1>2. name \in DOMAIN Paren /\ t0 \in Tokens
  BY <1>1, ParenConsumes
<1>3. /\ InputTyped' /\ Value \subseteq Value' /\ Undefined \in Value'
      /\ TermsTyped(arena', Value') /\ Works(Value', R, rules, stack, cur)
  BY <1>1, <1>2, PassGrows
<1>4. R \in Rules(Value', Len(rules))
  BY <1>3 DEF Works
<1>5. R.n \in Counters
  BY <1>4, Fields
<1> HIDE DEF name
<1>6. c \in Counters
  BY <1>2, <1>5 DEF Counters
<1>7. S = [R EXCEPT !.n = c, !.depth = {name}, !.node = Undefined]
  BY <1>4, <1>5 DEF Opened, Rules, RuleSet, Counters
<1> HIDE DEF R
<1>8. S \in Rules(Value', Len(rules)) /\ S.n = c
  <2> HIDE DEF c, S
  <2>1. QED
    BY <1>2, <1>3, <1>4, <1>6, <1>7 DEF Rules, RuleSet, Placed
<1> HIDE DEF c, S
<1>9. U \in Rules(Value', Len(rules))
  <2>1. c.paren + 1 \in Nat
    BY <1>6 DEF Counters
  <2>2. d \in Counters
    BY <1>6, <2>1 DEF Counters
  <2>3. U = [S EXCEPT !.n = d]
    BY <1>8 DEF Rules, RuleSet
  <2> HIDE DEF d
  <2>4. QED
    BY <1>8, <2>2, <2>3, WithCounters
<1> HIDE DEF U
<1>10. ASSUME NEW X \in Rules(Value', Len(rules)), EndsPass(X, rules)
       PROVE  Typed'
  BY <1>1, <1>3, <1>10, EndsTyped DEF Works
<1>11. QED
  BY <1>1, <1>8, <1>9, <1>10 DEF EndsPass, Names

LEMMA ParenTermsTyped ==
  ASSUME TypeInv, NEW P, P.node \in Value, P.child \in 0..Len(rules),
         NEW grand \in 0..Len(rules)
  PROVE  ParenTerms(P, grand) \in Seq(Value) /\ ParenInner(P) \in Value
<1>1. ParenInner(P) \in Value /\ NodeOf(grand) \in Value
  BY NodesAre DEF ParenInner
<1> DEFINE before == IF grand # 0 /\ rules[grand].preval /\ NodeOf(grand) # Undefined
                     THEN <<NodeOf(grand)>> ELSE << >>
           inside == IF ParenInner(P) = Undefined THEN << >> ELSE <<ParenInner(P)>>
<1>2. before \in Seq(Value) /\ inside \in Seq(Value)
  BY <1>1, OneTerm
<1>3. ParenTerms(P, grand) = before \o inside
  BY DEF ParenTerms
<1> HIDE DEF before, inside
<1>4. ParenTerms(P, grand) \in Seq(Value)
  BY <1>2, <1>3, ConcatProperties
<1>5. QED
  BY <1>1, <1>4

LEMMA ParenClosedTyped ==
  ASSUME TypeInv, Extends(arena, arena'), ParenClosed
  PROVE  Typed'
<1> DEFINE P      == rules[cur]
           n      == Len(rules)
           parent == P.parent
           grand  == rules[parent].parent
           own    == Closes(t0) \in P.depth
           terms  == ParenTerms(P, grand)
           node   == IF own THEN Newest(arena') ELSE ParenInner(P)
           others == [i \in DOMAIN rules |->
                        IF i \in {parent, grand} THEN [rules[i] EXCEPT !.node = node]
                        ELSE rules[i]]
           S      == [P EXCEPT !.node = node]
<1>1. /\ pratt' = NoCall /\ status = "run" /\ cur # 0 /\ Consume /\ P.name = "paren"
      /\ t0 \in ParenClose
      /\ arena' = IF own THEN NewNode(arena, ParenOp(Closes(t0)), at, terms) ELSE arena
      /\ Pop(S, others, t1)
  BY DEF ParenClosed, Passing, AcceptsCloser
<1>2. /\ InputTyped' /\ Value \subseteq Value' /\ Undefined \in Value'
      /\ TermsTyped(arena, Value') /\ Works(Value', P, rules, stack, cur)
      /\ \A i \in DOMAIN arena'.nodes : Handle(i) \in Value'
  BY <1>1, PassGrows DEF Tokens
<1>3. /\ P \in Rules(Value', n) /\ rules \in Seq(Rules(Value', n)) /\ n \in Nat
      /\ cur \in 1..n /\ stack \in Seq(1..n)
  BY <1>2 DEF Works
<1>4. parent \in 1..n /\ P.child \in 0..n
  BY <1>1, <1>3, Fields
<1>5. grand \in 0..n
  <2>1. rules[parent] \in Rules(Value', n)
    BY <1>3, <1>4, ElementOfSeq
  <2>2. QED
    BY <2>1, Fields
<1>6. P.node \in Value
  <2>1. P.node = NodeOf(cur) /\ cur \in 0..n
    BY <1>1, <1>3 DEF NodeOf
  <2>2. QED
    BY <2>1, NodesAre
<1>7. terms \in Seq(Value) /\ ParenInner(P) \in Value
  BY <1>4, <1>5, <1>6, ParenTermsTyped
<1>8. terms \in Seq(Value')
  BY <1>2, <1>7, SeqMonotonic
<1> HIDE DEF terms, parent, grand, own
<1>9. TermsTyped(arena', Value')
  BY <1>1, <1>2, <1>8, NewNodeTyped DEF TypeInv, PrattInv
<1>10. node \in Value'
  <2>1. CASE own
    <3>1. arena' = NewNode(arena, ParenOp(Closes(t0)), at, terms)
      BY <1>1, <2>1
    <3>2. Newest(arena') \in Value'
      BY <1>2, <3>1, NewestTyped DEF TypeInv, PrattInv
    <3>3. QED
      BY <2>1, <3>2
  <2>2. CASE ~own
    BY <1>2, <1>7, <2>2
  <2>3. QED
    BY <2>1, <2>2
<1> HIDE DEF node
<1>11. others \in Seq(Rules(Value', n)) /\ Len(others) = n
  <2>1. DOMAIN rules = 1..n
    BY <1>3, LenProperties
  <2>2. \A i \in 1..n : /\ rules[i] \in Rules(Value', n)
                        /\ [rules[i] EXCEPT !.node = node] \in Rules(Value', n)
    <3> SUFFICES ASSUME NEW i \in 1..n
                 PROVE  /\ rules[i] \in Rules(Value', n)
                        /\ [rules[i] EXCEPT !.node = node] \in Rules(Value', n)
      OBVIOUS
    <3>1. rules[i] \in Rules(Value', n)
      BY <1>3, ElementOfSeq
    <3>2. QED
      BY <1>10, <3>1 DEF Rules, RuleSet, Placed
  <2> HIDE DEF n
  <2>3. QED
    BY <1>3, <2>1, <2>2, LenProperties
<1>12. S \in Rules(Value', n)
  BY <1>3, <1>10 DEF Rules, RuleSet, Placed
<1> HIDE DEF others, S, P
<1>13. Works(Value', S, others, stack, cur)
  BY <1>2, <1>3, <1>11, <1>12 DEF Works
<1>14. EndsPass(S, others)
  BY <1>1 DEF EndsPass
<1>15. QED
  BY <1>1, <1>2, <1>9, <1>13, <1>14, EndsTyped

LEMMA ParenTyped ==
  ASSUME TypeInv, Extends(arena, arena'), Paren_
  PROVE  Typed'
<1>1. CASE ParenError
  BY <1>1, HaltTyped DEF ParenError
<1>2. QED
  BY <1>1, ParenOpeningTyped, ParenClosedTyped DEF Paren_

(***************************************************************************)
(* ternary                                                                 *)
(***************************************************************************)
LEMMA TernaryConsumes ==
  ASSUME TernaryOpenFirst
  PROVE  t0 \in Tokens /\ Asks(t0) \in DOMAIN Ternary
<1> DEFINE alts == << << t0 \in Tern0, "first" >>,
                      << rules[cur].prev # 0 /\ rules[rules[cur].prev].step = 2, "step" >> >>
<1>1. FirstMatch(alts) = "first" /\ DOMAIN alts = 1..2
  BY DEF TernaryOpenFirst, TernaryOpenAlt
<1> HIDE DEF alts
<1>2. PICK i \in 1..2 : alts[i][1] /\ alts[i][2] = "first"
  BY <1>1, FirstMatchHolds
<1>3. i = 1 \/ i = 2
  BY <1>2
<1>4. alts[2][2] = "step"
  BY DEF alts
<1>5. t0 \in Tern0
  <2>1. i = 1
    BY <1>2, <1>3, <1>4
  <2>2. QED
    BY <1>2, <2>1 DEF alts
<1>6. \E n \in DOMAIN Ternary : Ternary[n].first = t0
  BY <1>5 DEF Tern0
<1>7. QED
  BY <1>5, <1>6 DEF Tokens, Asks

LEMMA TernaryClosesOn ==
  ASSUME NEW T
  PROVE  /\ TernaryCloseAlt(T) = "then" => t0 \in Tern1
         /\ TernaryCloseAlt(T) = "skip" => t0 \in Separators
<1> DEFINE third  == IF T.d = 0 \/ (rules[T.prev].tparen # 0 /\ StartsList(T))
                     THEN "base" ELSE "skip"
           fourth == IF StartsList(T) /\ t0 # ZZ THEN "base" ELSE "end"
           alts == <<
             << t0 \in Tern1 /\ T.step = 1 /\ Answers(t0) = T.tname, "then" >>,
             << t0 \in ParenClose /\ ImplicitEnd(T), "end" >>,
             << t0 \in Separators /\ ImplicitEnd(T), third >>,
             << ImplicitEnd(T), fourth >>,
             << T.d > 0 /\ T.step = 2, "close" >> >>
<1> SUFFICES ASSUME TernaryCloseAlt(T) \in {"then", "skip"}
             PROVE  /\ TernaryCloseAlt(T) = "then" => t0 \in Tern1
                    /\ TernaryCloseAlt(T) = "skip" => t0 \in Separators
  OBVIOUS
<1>1. TernaryCloseAlt(T) = FirstMatch(alts) /\ DOMAIN alts = 1..5
  BY DEF TernaryCloseAlt
<1>2. third \in {"base", "skip"} /\ fourth \in {"base", "end"}
  OBVIOUS
<1> HIDE DEF third, fourth
<1>3. alts[2][2] = "end" /\ alts[4][2] = fourth /\ alts[5][2] = "close"
  OBVIOUS
<1> HIDE DEF alts
<1>4. PICK i \in 1..5 : alts[i][1] /\ TernaryCloseAlt(T) = alts[i][2]
  BY <1>1, FirstMatchHolds
<1>5. i = 1 \/ i = 2 \/ i = 3 \/ i = 4 \/ i = 5
  BY <1>4
<1>6. i = 1 \/ i = 3
  BY <1>2, <1>3, <1>4, <1>5
<1>7. CASE i = 1
  BY <1>4, <1>7 DEF alts
<1>8. CASE i = 3
  BY <1>2, <1>4, <1>8 DEF alts
<1>9. QED
  BY <1>6, <1>7, <1>8

LEMMA BranchedTyped ==
  ASSUME TypeInv, cur # 0, NEW V, Value \subseteq V, TermsTyped(arena, V),
         Works(V, rules[cur], rules, stack, cur)
  PROVE  TermsTyped(Branched, V)
<1>1. rules[cur].child \in 0..Len(rules)
  BY Fields DEF Works
<1>2. NodeOf(rules[cur].child) \in V
  BY <1>1, NodesAre
<1>3. QED
  BY <1>2, PushTermTyped DEF Branched, TypeInv, PrattInv

\* The condition of a ternary becomes its first term.
LEMMA TernaryFirstTyped ==
  ASSUME TypeInv, Extends(arena, arena'), TernaryOpenFirst
  PROVE  Typed'
<1> DEFINE R     == rules[cur]
           n     == Len(rules)
           prev  == R.prev
           cond  == LinkedNode(prev)
           wraps == IsOp(arena, cond)
           op    == TernaryOp(Asks(t0))
           outer == R.n.paren
           node  == IF wraps THEN cond ELSE Newest(arena')
           par   == IF outer # 0 \/ prev = 0 THEN outer ELSE rules[prev].tparen
           c     == [R.n EXCEPT !.ternary = R.n.ternary + 1, !.paren = 0,
                                !.expr = 0, !.prefix = 0, !.suffix = 0]
           name  == Asks(t0)
           S0    == [R EXCEPT !.node = node, !.step = 1, !.tname = name, !.tparen = par]
           S     == [S0 EXCEPT !.n.ternary = @ + 1, !.n.paren = 0,
                               !.n.expr = 0, !.n.prefix = 0, !.n.suffix = 0]
<1>1. /\ pratt' = NoCall /\ status = "run" /\ cur # 0 /\ Consume
      /\ arena' = IF wraps THEN Wrap(arena, cond, op, at) ELSE NewNode(arena, op, at, <<cond>>)
      /\ Push(S, "val", PriorLinked(prev, node, wraps))
  BY DEF TernaryOpenFirst, Passing
<1>2. t0 \in Tokens /\ name \in DOMAIN Ternary
  BY TernaryConsumes
<1>3. /\ InputTyped' /\ Value \subseteq Value' /\ TermsTyped(arena, Value')
      /\ Works(Value', R, rules, stack, cur)
      /\ \A i \in DOMAIN arena'.nodes : Handle(i) \in Value'
  BY <1>1, <1>2, PassGrows
<1>4. R \in Rules(Value', n) /\ rules \in Seq(Rules(Value', n)) /\ n \in Nat
  BY <1>3 DEF Works
<1>5. prev \in 0..n /\ R.n \in Counters
  BY <1>4, Fields
<1>6. cond \in Value'
  BY <1>3, <1>5, NodesAre
<1>7. par \in Nat
  <2>1. outer \in Nat
    BY <1>5 DEF Counters
  <2>2. CASE prev = 0
    BY <2>1, <2>2
  <2>3. CASE prev # 0
    <3>1. rules[prev] \in Rules(Value', n)
      BY <1>4, <1>5, <2>3, ElementOfSeq
    <3>2. QED
      BY <2>1, <3>1, Fields
  <2>4. QED
    BY <2>2, <2>3
<1> HIDE DEF cond, op, n, name, par
<1>8. TermsTyped(arena', Value')
  <2>1. CASE wraps
    BY <1>1, <1>3, <2>1, WrapTyped DEF IsOp, TypeInv, PrattInv
  <2>2. CASE ~wraps
    <3>1. <<cond>> \in Seq(Value')
      BY <1>6, OneTerm
    <3>2. QED
      BY <1>1, <1>3, <2>2, <3>1, NewNodeTyped DEF TypeInv, PrattInv
  <2>3. QED
    BY <2>1, <2>2
<1>9. node \in Value'
  <2>1. CASE wraps
    BY <1>6, <2>1
  <2>2. CASE ~wraps
    <3>1. Newest(arena') \in Value'
      BY <1>1, <1>3, <2>2, NewestTyped DEF TypeInv, PrattInv
    <3>2. QED
      BY <2>2, <3>1
  <2>3. QED
    BY <2>1, <2>2
<1> HIDE DEF node, wraps, prev
<1>10. S \in Rules(Value', n)
  <2>1. R.n.ternary + 1 \in Nat
    BY <1>5 DEF Counters
  <2>2. c \in Counters
    BY <1>5, <2>1 DEF Counters
  <2>3. S0 \in Rules(Value', n) /\ S0.n = R.n
    <3> HIDE DEF R
    <3>1. QED
      BY <1>2, <1>4, <1>7, <1>9 DEF Rules, RuleSet, Placed
  <2> HIDE DEF S0, R
  <2>4. S = [S0 EXCEPT !.n = c]
    BY <1>5, <2>3 DEF Rules, RuleSet
  <2> HIDE DEF c, S
  <2>5. QED
    BY <2>2, <2>3, <2>4, WithCounters
<1> HIDE DEF S, S0, R
<1>11. Works(Value', S, PriorLinked(prev, node, wraps), stack, cur)
  BY <1>3, <1>5, <1>9, <1>10, LinkedTyped DEF n
<1>12. EndsPass(S, PriorLinked(prev, node, wraps))
  BY <1>1 DEF EndsPass, Names
<1>13. QED
  BY <1>1, <1>3, <1>8, <1>11, <1>12, EndsTyped

LEMMA TernaryStepTyped ==
  ASSUME TypeInv, Extends(arena, arena'), TernaryOpenStep
  PROVE  Typed'
<1> DEFINE R    == rules[cur]
           n    == Len(rules)
           prev == rules[R.prev]
           c    == [R.n EXCEPT !.paren = prev.tparen]
           S    == [R EXCEPT !.step = prev.step, !.tparen = prev.tparen, !.n.paren = prev.tparen]
<1>1. /\ pratt' = NoCall /\ status = "run" /\ cur # 0 /\ Keep /\ arena' = arena
      /\ Push(S, "val", rules) /\ R.name = "ternary"
  BY DEF TernaryOpenStep, Passing
<1>2. /\ InputTyped' /\ Value \subseteq Value' /\ TermsTyped(arena', Value')
      /\ Works(Value', R, rules, stack, cur)
  BY <1>1, PassGrows
<1>3. R \in Rules(Value', n) /\ rules \in Seq(Rules(Value', n)) /\ n \in Nat
  BY <1>2 DEF Works
<1>4. R.prev \in 1..n /\ R.n \in Counters
  BY <1>1, <1>3, Fields
<1>5. prev \in Rules(Value', n)
  BY <1>3, <1>4, ElementOfSeq
<1>6. prev.step \in Nat /\ prev.tparen \in Nat
  BY <1>5, Fields
<1> HIDE DEF prev
<1>7. c \in Counters
  BY <1>4, <1>6 DEF Counters
<1>8. S = [R EXCEPT !.step = prev.step, !.tparen = prev.tparen, !.n = c]
  BY <1>3, <1>4 DEF Rules, RuleSet, Counters
<1> HIDE DEF c, R, S, n
<1>9. S \in Rules(Value', n)
  BY <1>3, <1>6, <1>7, <1>8 DEF Rules, RuleSet, Placed
<1>10. Works(Value', S, rules, stack, cur) /\ EndsPass(S, rules)
  BY <1>1, <1>2, <1>9 DEF Works, EndsPass, Names, n
<1>11. QED
  BY <1>1, <1>2, <1>10, EndsTyped

LEMMA TernaryThenTyped ==
  ASSUME TypeInv, Extends(arena, arena'), TernaryCloseThen
  PROVE  Typed'
<1> DEFINE R == rules[cur]
           S == [R EXCEPT !.step = R.step + 1]
<1>1. /\ pratt' = NoCall /\ status = "run" /\ cur # 0 /\ Consume /\ arena' = Branched
      /\ Replace(S, "ternary", rules) /\ TernaryCloseAlt(R) = "then"
  BY DEF TernaryCloseThen, Passing
<1>2. t0 \in Tokens
  BY <1>1, TernaryClosesOn DEF Tokens
<1>3. /\ InputTyped' /\ Value \subseteq Value' /\ TermsTyped(arena, Value')
      /\ Works(Value', R, rules, stack, cur)
  BY <1>1, <1>2, PassGrows
<1>4. TermsTyped(arena', Value')
  BY <1>1, <1>3, BranchedTyped
<1>5. R \in Rules(Value', Len(rules))
  BY <1>3 DEF Works
<1>6. R.step + 1 \in Nat /\ DOMAIN Ternary # {}
  <2>1. R.name = "ternary"
    BY DEF TernaryCloseThen, Passing
  <2>2. QED
    BY <1>5, <2>1, Fields
<1> HIDE DEF R
<1>7. S \in Rules(Value', Len(rules))
  BY <1>5, <1>6 DEF Rules, RuleSet, Placed
<1> HIDE DEF S
<1>8. Works(Value', S, rules, stack, cur) /\ EndsPass(S, rules)
  BY <1>1, <1>3, <1>6, <1>7 DEF Works, EndsPass, Names
<1>9. QED
  BY <1>1, <1>3, <1>4, <1>8, EndsTyped

LEMMA UnwoundTyped ==
  ASSUME NEW V, NEW n \in Nat, rules \in Seq(Rules(V, n)), Len(rules) = n, NEW T \in Rules(V, n)
  PROVE  Unwound(T) \in Rules(V, n)
<1> DEFINE par == rules[T.prev].tparen
           c   == [T.n EXCEPT !.paren = par]
<1>1. CASE T.prev = 0
  BY <1>1 DEF Unwound
<1>2. CASE T.prev # 0
  <2>1. T.prev \in 1..n /\ T.n \in Counters
    BY <1>2, Fields
  <2>2. rules[T.prev] \in Rules(V, n)
    BY <2>1, ElementOfSeq
  <2>3. par \in Nat
    BY <2>2, Fields
  <2> HIDE DEF par
  <2>4. c \in Counters
    BY <2>1, <2>3 DEF Counters
  <2>5. Unwound(T) \in {T, [T EXCEPT !.n = c]}
    BY DEF Unwound, Rules, RuleSet, par
  <2> HIDE DEF c
  <2>6. QED
    BY <2>4, <2>5, WithCounters
<1>3. QED
  BY <1>1, <1>2

LEMMA TernaryElseTyped ==
  ASSUME TypeInv, Extends(arena, arena'), TernaryCloseElse
  PROVE  Typed'
<1> DEFINE R == rules[cur]
           S == Unwound(R)
<1>1. /\ pratt' = NoCall /\ status = "run" /\ cur # 0 /\ arena' = Branched
      /\ \E next : Pop(S, rules, next)
      /\ Keep \/ (Consume /\ TernaryCloseAlt(R) = "skip")
  BY DEF TernaryCloseElse, Passing
<1>2. Keep \/ (t0 \in Tokens /\ Consume)
  BY <1>1, TernaryClosesOn DEF Tokens
<1>3. /\ InputTyped' /\ Value \subseteq Value' /\ TermsTyped(arena, Value')
      /\ Works(Value', R, rules, stack, cur)
  BY <1>1, <1>2, PassGrows
<1>4. TermsTyped(arena', Value')
  BY <1>1, <1>3, BranchedTyped
<1>5. /\ R \in Rules(Value', Len(rules)) /\ rules \in Seq(Rules(Value', Len(rules)))
      /\ Len(rules) \in Nat
  BY <1>3 DEF Works
<1> HIDE DEF R
<1>6. S \in Rules(Value', Len(rules))
  BY <1>5, UnwoundTyped
<1> HIDE DEF S
<1>7. Works(Value', S, rules, stack, cur) /\ EndsPass(S, rules)
  BY <1>1, <1>3, <1>6 DEF Works, EndsPass
<1>8. QED
  BY <1>1, <1>3, <1>4, <1>7, EndsTyped

LEMMA TernaryBaseTyped ==
  ASSUME TypeInv, Extends(arena, arena'), TernaryCloseBase
  PROVE  Typed'
<1>1. /\ arena' = Branched /\ Keep /\ cur # 0 /\ rules' = rules /\ stack' = stack
      /\ cur' = cur /\ pratt' = NoCall /\ result' = result /\ status' = "base"
  BY DEF TernaryCloseBase, Passing
<1>2. /\ Value \subseteq Value' /\ TermsTyped(arena, Value')
      /\ Works(Value', rules[cur], rules, stack, cur)
  BY <1>1, PassGrows
<1>3. TermsTyped(arena', Value')
  BY <1>1, <1>2, BranchedTyped
<1>4. QED
  BY <1>1, <1>3, StandsTyped

LEMMA TernaryTyped ==
  ASSUME TypeInv, Extends(arena, arena'), Ternary_
  PROVE  Typed'
<1>1. CASE TernaryError
  BY <1>1, HaltTyped DEF TernaryError
<1>2. QED
  BY <1>1, TernaryFirstTyped, TernaryStepTyped, TernaryThenTyped DEF Ternary_

(***************************************************************************)
(* Every step.                                                             *)
(***************************************************************************)
LEMMA InitTyped == Init => Typed
<1> SUFFICES ASSUME Init PROVE Typed
  OBVIOUS
<1>1. /\ input \in Sources /\ at = 1 /\ arena = EmptyArena /\ rules = <<Rule0>>
      /\ stack = << >> /\ cur = 1 /\ pratt = NoCall /\ status = "run" /\ result = Undefined
  BY DEF Init, InitWith
<1>2. InputTyped
  <2>1. MaxTokens \in Nat /\ MaxTokens >= 2 /\ ZZ \notin Tokens
    BY TokensBound, TokensAssumption
  <2>2. CASE input = <<ZZ>>
    BY <1>1, <2>1, <2>2 DEF InputTyped
  <2>3. CASE input # <<ZZ>>
    <3>1. PICK t \in Tokens, u \in Tokens \cup {ZZ} : input = <<t, u>>
      BY <1>1, <2>3 DEF Sources
    <3>2. input \in Seq(Tokens \cup {ZZ}) /\ Len(input) = 2
      BY <3>1
    <3>3. QED
      BY <1>1, <2>1, <3>2 DEF InputTyped
  <2>4. QED
    BY <2>2, <2>3
<1>3. Undefined \in Value
  BY ValuesAre DEF Value
<1>4. Rule0 \in Rules(Value, 1)
  <2>1. NoCounters \in Counters
    BY DEF NoCounters, Counters
  <2>2. 1 \in Nat /\ 0 \in 0..1 /\ 0 \in Nat /\ "val" \in Names
    BY DEF Names
  <2>3. QED
    BY <1>3, <2>1, <2>2, RuleTyped DEF Rule0
<1>5. StackTyped
  <2>1. Len(rules) = 1 /\ rules \in Seq(Rules(Value, 1))
    BY <1>1, <1>4, OneTerm
  <2>2. QED
    BY <1>1, <1>3, <2>1 DEF StackTyped
<1>6. TermsTyped(arena, Value) /\ CallTyped
  BY <1>1, EmptySeq DEF TermsTyped, CallTyped, EmptyArena
<1>7. QED
  BY <1>2, <1>5, <1>6 DEF Typed

LEMMA StepTyped ==
  ASSUME TypeInv, [Next]_vars
  PROVE  Typed'
<1>1. Sound(arena') /\ Extends(arena, arena')
  BY StepSound DEF TypeInv, PrattInv
<1>2. CASE Val_
  BY <1>1, <1>2, ValTyped
<1>3. CASE Expr_
  BY <1>1, <1>3, ParenOpenTyped, EmbedTyped, PriorTyped, PrattTyped, DrillTyped,
     CloseReplaceTyped, ClosePopTyped DEF Expr_
<1>4. CASE Paren_
  BY <1>1, <1>4, ParenTyped
<1>5. CASE Ternary_ \/ TernaryCloseElse \/ TernaryCloseBase
  BY <1>1, <1>5, TernaryTyped, TernaryElseTyped, TernaryBaseTyped
<1>6. CASE ValCloseBase \/ Cancel
  BY <1>6, HaltTyped DEF ValCloseBase, Cancel
<1>7. CASE ExprCloseBase \/ ExprCloseEnd
  BY <1>1, <1>7, CloseBaseTyped, ClosePopTyped
<1>8. CASE UNCHANGED vars
  BY <1>8 DEF vars, TypeInv, Typed, TermsTyped, Value, InputTyped, StackTyped, CallTyped
<1>9. QED
  BY <1>2, <1>3, <1>4, <1>5, <1>6, <1>7, <1>8 DEF Next, Base_, Over

LEMMA TypesFollow == TypeInv => TypeOK
<1> SUFFICES ASSUME TypeInv PROVE TypeOK
  OBVIOUS
<1>1. /\ Len(input) <= MaxTokens + 1 /\ \A i \in DOMAIN input : input[i] \in Tokens \cup {ZZ}
      /\ at \in 1..(MaxTokens + 1)
  <2>1. /\ input \in Seq(Tokens \cup {ZZ}) /\ Len(input) \in 1..(MaxTokens + 1)
        /\ at \in 1..(MaxTokens + 1) /\ MaxTokens \in Nat
    BY TokensBound DEF TypeInv, Typed, InputTyped
  <2>2. QED
    BY <2>1, ElementOfSeq, LenProperties
<1>2. \A i \in DOMAIN arena.nodes :
        /\ arena.nodes[i].root \in DOMAIN arena.nodes
        /\ arena.nodes[i].size \in Nat \ {0}
        /\ NodeTerms(i) \subseteq Value
  <2> SUFFICES ASSUME NEW i \in DOMAIN arena.nodes
               PROVE  /\ arena.nodes[i].root \in DOMAIN arena.nodes
                      /\ arena.nodes[i].size \in Nat \ {0}
                      /\ NodeTerms(i) \subseteq Value
    OBVIOUS
  <2>1. arena.nodes[i].root \in DOMAIN arena.nodes /\ arena.nodes[i].size \in Nat \ {0}
    BY DEF TypeInv, PrattInv, Sound, WellRooted, IsNode
  <2>2. arena.nodes[i].terms \in Seq(Value)
    BY DEF TypeInv, Typed, TermsTyped
  <2>3. NodeTerms(i) \subseteq Value
    BY <2>2, ElementOfSeq, LenProperties DEF NodeTerms
  <2>4. QED
    BY <2>1, <2>3
<1>3. /\ rules \in Seq(Rules(Value, Len(rules))) /\ stack \in Seq(1..Len(rules))
      /\ cur \in 0..Len(rules) /\ result \in Value
      /\ status \in {"run", "done", "error", "base", "cancel"}
      /\ Len(rules) \in Nat /\ DOMAIN rules = 1..Len(rules)
  BY LenProperties DEF TypeInv, Typed, StackTyped
<1>4. \A r \in DOMAIN rules :
        /\ {rules[r].node, rules[r].attach, rules[r].value} \subseteq Value
        /\ {rules[r].parent, rules[r].prev, rules[r].child} \subseteq 0..Len(rules)
  <2> SUFFICES ASSUME NEW r \in DOMAIN rules
               PROVE  /\ {rules[r].node, rules[r].attach, rules[r].value} \subseteq Value
                      /\ {rules[r].parent, rules[r].prev, rules[r].child} \subseteq 0..Len(rules)
    OBVIOUS
  <2>1. rules[r] \in Rules(Value, Len(rules))
    BY <1>3, ElementOfSeq
  <2>2. QED
    BY <2>1, Fields
<1>5. \A i \in DOMAIN stack : stack[i] \in DOMAIN rules
  BY <1>3, ElementOfSeq, LenProperties
<1>6. pratt # NoCall => {pratt.root, pratt.expr} \subseteq Value
  BY DEF TypeInv, Typed, CallTyped
<1>7. QED
  BY <1>1, <1>2, <1>3, <1>4, <1>5, <1>6 DEF TypeOK

LEMMA AlwaysTypeInv == Spec => []TypeInv
<1>1. Init => Typed
  BY InitTyped
<1>2. PrattInv /\ Typed /\ [Next]_vars => Typed'
  BY StepTyped DEF TypeInv
<1>3. Spec => []PrattInv
  BY AlwaysPrattInv
<1>4. PrattInv /\ Typed <=> TypeInv
  BY DEF TypeInv
<1>5. QED
  BY <1>1, <1>2, <1>3, <1>4, PTL DEF Spec

(***************************************************************************)
(* Whatever the source and the table, every value in the parse is one of   *)
(* its own: the tokens of the source that were read and the nodes of the   *)
(* arena.  No rule keeps the handle of a node that was never made, and a   *)
(* rule named as a parent, prior or child was created: what the hooks take *)
(* from a rule they reach through others is never missing.                 *)
(***************************************************************************)
THEOREM AlwaysTypeOK == Spec => []TypeOK
BY AlwaysTypeInv, TypesFollow, PTL
=============================================================================
