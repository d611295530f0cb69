------------------------------ MODULE MCLists ------------------------------
(***************************************************************************)
(* Operator tables for TLC, as in MCExpr, for sources with implicit lists. *)
(***************************************************************************)
EXTENDS ExprListProps, TLC

Lowest == -1000
None   == [t \in {} |-> 0]

MCPrefix  == "-" :> [left |-> 0, right |-> 40]
MCLadder  == ("+" :> [left |-> 20, right |-> 21]) @@ ("*" :> [left |-> 30, right |-> 31])
MCPlus    == "+" :> [left |-> 20, right |-> 21]
MCSuffix  == "!" :> [left |-> 60, right |-> 0]
MCTernary == "cond" :> [first |-> "?", second |-> ":"]
MCPlain   == "plain" :> [open |-> "(", close |-> ")"]
=============================================================================
