------------------------------ MODULE ExprOps ------------------------------
(***************************************************************************)
(* The operator table of a parser instance, as the plugin builds it from   *)
(* the operator definitions it is configured with (rs/src/lib.rs,          *)
(* make_op_map and make_paren_map): for each family, a map from the token  *)
(* an operator is written with to its description.  One token may head a   *)
(* prefix operator and an infix operator at once, as "+" and "-" do in the *)
(* default table.                                                          *)
(***************************************************************************)
EXTENDS Integers, FiniteSets

CONSTANTS
  Val,                      \* the token of a plain value (TX, NR, ST, VL)
  Prefix, Infix, Suffix,    \* token |-> [left, right], 0 where a power is unset
  Ternary,                  \* ternary name |-> [first, second] token
  Paren,                    \* paren name |-> [open, close] token
  PrevalActive,             \* the parens that may take a preceding value ...
  PrevalRequired,           \* ... and those that must
  Separators,               \* the comma (CA), or none where sources have no comma
  MinPower, MaxPower        \* the unset left and right binding powers

ZZ == "ZZ"                  \* end of the source

Tern0      == {Ternary[n].first : n \in DOMAIN Ternary}
Tern1      == {Ternary[n].second : n \in DOMAIN Ternary}
ParenOpen  == {Paren[n].open : n \in DOMAIN Paren}
ParenClose == {Paren[n].close : n \in DOMAIN Paren}
Tokens     == {Val} \cup DOMAIN Prefix \cup DOMAIN Infix \cup DOMAIN Suffix
                \cup Tern0 \cup Tern1 \cup ParenOpen \cup ParenClose \cup Separators

\* The paren and the ternary a token belongs to.
Opens(t)   == CHOOSE n \in DOMAIN Paren : Paren[n].open = t
Closes(t)  == CHOOSE n \in DOMAIN Paren : Paren[n].close = t
Asks(t)    == CHOOSE n \in DOMAIN Ternary : Ternary[n].first = t
Answers(t) == CHOOSE n \in DOMAIN Ternary : Ternary[n].second = t

(***************************************************************************)
(* A power of zero is no power at all: it falls through to the fallback,   *)
(* as the canonical `opdef.left || MIN_SAFE_INTEGER` does.                 *)
(***************************************************************************)
\* MUTANT of BindingPower: a power of zero is taken at its word.
BindingPowerAsIs(power, unset) == power

BindingPower(power, unset) == IF power = 0 THEN unset ELSE power

Powered(kind, t, def, terms) ==
  [kind  |-> kind, name |-> t, terms |-> terms,
   left  |-> BindingPower(def.left, MinPower),
   right |-> BindingPower(def.right, MaxPower)]

PrefixOp(t)  == Powered("prefix", t, Prefix[t], 1)
InfixOp(t)   == Powered("infix", t, Infix[t], 2)
SuffixOp(t)  == Powered("suffix", t, Suffix[t], 1)
TernaryOp(n) == Powered("ternary", n, [left |-> 0, right |-> 0], 3)
ParenOp(n)   == Powered("paren", n, [left |-> 0, right |-> 0], 1)

(***************************************************************************)
(* What the plugin relies on in a table: the tokens of values, parens and  *)
(* ternaries have no second meaning, and every power lies within bounds.   *)
(***************************************************************************)
Spelled == DOMAIN Prefix \cup DOMAIN Infix \cup DOMAIN Suffix
Bracket == Tern0 \cup Tern1 \cup ParenOpen \cup ParenClose

ASSUME PowersAssumption ==
  /\ MinPower \in Int /\ MaxPower \in Int /\ MinPower < MaxPower
  /\ \A defs \in {Prefix, Infix, Suffix} : \A t \in DOMAIN defs :
        /\ defs[t].left \in MinPower..MaxPower
        /\ defs[t].right \in MinPower..MaxPower

ASSUME TokensAssumption ==
  /\ ZZ \notin Tokens
  /\ Val \notin Spelled \cup Bracket
  /\ Spelled \cap Bracket = {} /\ ParenOpen \cap ParenClose = {}
  /\ Separators \cap ({Val} \cup Spelled \cup Bracket) = {}
  /\ Cardinality(Bracket) = 2 * (Cardinality(DOMAIN Paren) + Cardinality(DOMAIN Ternary))
  /\ PrevalRequired \subseteq PrevalActive
  /\ PrevalActive \subseteq DOMAIN Paren
=============================================================================
