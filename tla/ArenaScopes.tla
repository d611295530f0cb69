---------------------------- MODULE ArenaScopes ----------------------------
(***************************************************************************)
(* What rs/src/lib.rs promises of the node arena to a parse that goes      *)
(* through the crate's own entry points: its nodes stay usable for as long *)
(* as it, and the closure it hands its value to, are running, whatever     *)
(* other parses run inside it; and an identity names one node for ever.    *)
(***************************************************************************)
EXTENDS Integers

CONSTANTS
  Scope,      \* how deep in one another parses may run: a set of numbers
  Node        \* the node identities there are

VARIABLES
  scopes,     \* the parses in flight, each with the nodes made in it
  usable,     \* the nodes of those parses that can be read
  known       \* every identity handed out so far

svars == <<scopes, usable, known>>

Init == scopes = [i \in {} |-> {}] /\ usable = {} /\ known = {}

Innermost(i) == i \in DOMAIN scopes /\ \A j \in DOMAIN scopes : j <= i

Open(i) ==
  /\ \A j \in DOMAIN scopes : j < i
  /\ scopes' = [j \in DOMAIN scopes \cup {i} |-> IF j = i THEN {} ELSE scopes[j]]
  /\ UNCHANGED <<usable, known>>

\* A node of the innermost parse.
Make(i, n) ==
  /\ Innermost(i) /\ n \notin known
  /\ scopes' = [scopes EXCEPT ![i] = @ \cup {n}]
  /\ usable' = usable \cup {n}
  /\ known' = known \cup {n}

\* A node of a parse that was given no scope.
MakeUnscoped(n) ==
  /\ n \notin known
  /\ known' = known \cup {n}
  /\ UNCHANGED <<scopes, usable>>

\* The end of the innermost parse takes its own nodes and no others.
Close(i) ==
  /\ Innermost(i)
  /\ scopes' = [j \in DOMAIN scopes \ {i} |-> scopes[j]]
  /\ usable' = usable \ scopes[i]
  /\ UNCHANGED known

Next ==
  \/ \E i \in Scope : Open(i) \/ Close(i) \/ \E n \in Node : Make(i, n)
  \/ \E n \in Node : MakeUnscoped(n)

Spec == Init /\ [][Next]_svars
=============================================================================
