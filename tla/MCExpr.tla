------------------------------- MODULE MCExpr -------------------------------
(***************************************************************************)
(* Operator tables for TLC: operators of the default table and of the      *)
(* tables the tests register, with the magnitudes scaled down and their    *)
(* order kept.                                                             *)
(***************************************************************************)
EXTENDS ExprProps, TLC

Lowest == -1000
None   == [t \in {} |-> 0]

\* One source token is both a prefix and an infix, as "+" and "-" are in the
\* default table; the power associates to the right and is tighter than the
\* prefix, the suffix is tighter than all of them.
MCPrefix == "-" :> [left |-> 0, right |-> 40]
MCMinus  == "-" :> [left |-> 20, right |-> 21]
MCInfix  == MCMinus @@ ("^" :> [left |-> 51, right |-> 50])
MCSuffix == "!" :> [left |-> 60, right |-> 0]

\* Two tiers that associate to the left.
MCLadder == ("+" :> [left |-> 20, right |-> 21]) @@ ("*" :> [left |-> 30, right |-> 31])

MCTernary == "cond" :> [first |-> "?", second |-> ":"]
MCPlain   == "plain" :> [open |-> "(", close |-> ")"]
MCParens  == MCPlain @@ ("angle" :> [open |-> "<", close |-> ">"])
=============================================================================
