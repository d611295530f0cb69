--------------------------- MODULE ArenaLifecycle ---------------------------
(***************************************************************************)
(* The node arena of one thread over the parses that use it (rs/src/lib.rs,*)
(* Arena, release_arena, ArenaGuard, and the entry points parse_with,      *)
(* parse_simplified and parse_scope).                                      *)
(*                                                                         *)
(* A parse through an entry point holds the arena open with a guard; one   *)
(* that drives the engine directly, through Tabnas::parse, does not.  A    *)
(* parse may start inside another: an evaluator or a host's callback runs  *)
(* in the middle of one, and the closure of parse_scope at its end.  What  *)
(* a parse does to its nodes is NodeArena's and ExprRules'; here it makes  *)
(* nodes, and grows the expression it is working on.                       *)
(***************************************************************************)
EXTENDS Integers, Sequences, FiniteSets

CONSTANTS
  NodeLimit,      \* NODE_LIMIT, 127 in the code
  MaxDepth,       \* bound on parses inside one another
  MaxNodes        \* bound on the nodes of a behaviour

ASSUME LifecycleAssumption == NodeLimit \in Nat /\ MaxDepth \in Nat /\ MaxNodes \in Nat

VARIABLES
  live,           \* the identities the arena holds a node for
  next_id,
  active,         \* the guards held
  over_limit,
  frames,         \* the parses in flight, the innermost last
  escaped,        \* the handles a caller may have kept from parses that are over
  fresh,          \* the nodes of a direct parse's result, until they are given up
  last            \* the last parse to end

vars == <<live, next_id, active, over_limit, frames, escaped, fresh, last>>

GuardedKinds == {"with", "scope"}

\* from: the identities handed out before the parse; made: the nodes made in
\* it; root, size: the expression it is building; outgrew: whether one of its
\* expressions passed the limit; nested: whether a parse has run inside it.
Parse(kind) == [kind |-> kind, phase |-> "parse", from |-> next_id, made |-> {},
                root |-> 0, size |-> 0, outgrew |-> FALSE, nested |-> FALSE]

Top == frames[Len(frames)]
Guarded(f) == f.kind \in GuardedKinds

Init ==
  /\ live = {} /\ next_id = 0 /\ active = 0 /\ over_limit = FALSE
  /\ frames = <<>> /\ escaped = {} /\ fresh = {}
  /\ last = [kind |-> "with", from |-> 0]

\* MUTANT of Release: a fresh arena in place of the old one.
ReleaseAfresh(holders) ==
  /\ live' = IF holders = 0 THEN {} ELSE live
  /\ over_limit' = (over_limit /\ holders # 0)
  /\ next_id' = IF holders = 0 THEN 0 ELSE next_id

\* MUTANT of Release: it does not ask whether a parse holds the arena.
ReleaseAnyway(holders) == live' = {} /\ over_limit' = FALSE /\ next_id' = next_id

\* Empty the arena when nothing holds it open: clear() keeps next_id.
Release(holders) ==
  /\ live' = IF holders = 0 THEN {} ELSE live
  /\ over_limit' = (over_limit /\ holders # 0)
  /\ next_id' = next_id

(***************************************************************************)
(* Starting a parse.                                                       *)
(***************************************************************************)
MayStart ==
  /\ Len(frames) < MaxDepth
  /\ frames # <<>> => Top.phase = "parse" \/ Top.kind = "scope"

Started(kind) ==
  Append([i \in DOMAIN frames |-> [frames[i] EXCEPT !.nested = TRUE]], Parse(kind))

\* MUTANT of EnterGuarded: the flag of an earlier parse is left standing.
EnterGuardedFlagged(kind) ==
  /\ MayStart
  /\ active' = active + 1
  /\ frames' = Started(kind)
  /\ fresh' = {}
  /\ UNCHANGED <<live, next_id, over_limit, escaped, last>>

\* The guard first; release_arena, which the plugin runs as every parse is
\* prepared, then finds it and leaves the arena alone.
EnterGuarded(kind) ==
  /\ MayStart
  /\ active' = active + 1
  /\ over_limit' = FALSE
  /\ frames' = Started(kind)
  /\ fresh' = {}
  /\ UNCHANGED <<live, next_id, escaped, last>>

EnterDirect ==
  /\ MayStart
  /\ Release(active)
  /\ frames' = Started("direct")
  /\ fresh' = {}
  /\ UNCHANGED <<active, escaped, last>>

(***************************************************************************)
(* The innermost parse at work.                                            *)
(***************************************************************************)
Parsing == frames # <<>> /\ Top.phase = "parse"

Grown(root, size, over) ==
  [Top EXCEPT !.made = @ \cup {next_id + 1}, !.root = root, !.size = size,
              !.outgrew = @ \/ over]

\* A node of the expression headed by root, now of that size.
Making(root, size, over) ==
  /\ next_id < MaxNodes
  /\ next_id' = next_id + 1
  /\ live' = live \cup {next_id + 1}
  /\ over_limit' = (over_limit \/ over)
  /\ frames' = [frames EXCEPT ![Len(frames)] = Grown(root, size, over)]
  /\ UNCHANGED <<active, escaped, fresh, last>>

\* A node that starts an expression is not counted against the limit.
StartExpr == Parsing /\ Making(next_id + 1, 1, FALSE)

GrowExpr ==
  /\ Parsing /\ Top.root \in live
  /\ Making(Top.root, Top.size + 1, Top.size + 1 > NodeLimit)

\* The arena lost the root to a parse that ran inside an unguarded one: the
\* node becomes a root of its own, counted once more under itself.
GrowOrphan ==
  /\ Parsing /\ Top.root # 0 /\ Top.root \notin live
  /\ Making(next_id + 1, 2, 2 > NodeLimit)

(***************************************************************************)
(* Ending it.  The guard is dropped however the parse ends: a result, an   *)
(* error, or a panic unwinding through it.                                 *)
(***************************************************************************)
\* MUTANT of Ending: the release is a call at the end of the entry point,
\* which an error in the parse returns before.
EndingLate ==
  /\ frames' = SubSeq(frames, 1, Len(frames) - 1)
  /\ last' = [kind |-> Top.kind, from |-> Top.from]
  /\ IF Guarded(Top) /\ Top.phase = "use"
     THEN active' = active - 1 /\ Release(active')
     ELSE UNCHANGED <<active, live, over_limit, next_id>>

\* MUTANT of Ending: a direct parse gives back a guard as well.
EndingAlways ==
  /\ frames' = SubSeq(frames, 1, Len(frames) - 1)
  /\ last' = [kind |-> Top.kind, from |-> Top.from]
  /\ active' = IF active = 0 THEN 0 ELSE active - 1
  /\ Release(active')

Ending ==
  /\ frames' = SubSeq(frames, 1, Len(frames) - 1)
  /\ last' = [kind |-> Top.kind, from |-> Top.from]
  /\ IF Guarded(Top)
     THEN /\ active' = IF active = 0 THEN 0 ELSE active - 1
          /\ Release(active')
     ELSE UNCHANGED <<active, live, over_limit, next_id>>

\* The parse budget is asked: an expression has outgrown the limit.
Cancel ==
  /\ Parsing /\ over_limit
  /\ Ending
  /\ escaped' = escaped \cup Top.made /\ fresh' = {}

\* A document in error, or a panic, in the parse or in what is done with it.
Fail ==
  /\ frames # <<>>
  /\ Ending
  /\ escaped' = escaped \cup Top.made /\ fresh' = {}

\* A direct parse returns its handles to whoever drove it; they are good
\* until the next parse if none ran inside it.
Return ==
  /\ Parsing /\ ~Guarded(Top)
  /\ Ending
  /\ escaped' = escaped \cup Top.made
  /\ fresh' = IF Top.nested THEN {} ELSE Top.made

\* A guarded one realizes its value, or hands it to a closure, and then ends.
Use ==
  /\ Parsing /\ Guarded(Top)
  /\ frames' = [frames EXCEPT ![Len(frames)].phase = "use"]
  /\ UNCHANGED <<live, next_id, active, over_limit, escaped, fresh, last>>

Finish ==
  /\ frames # <<>> /\ Top.phase = "use"
  /\ Ending
  /\ escaped' = escaped \cup (IF Top.kind = "scope" THEN Top.made ELSE {})
  /\ fresh' = {}

Next ==
  \/ \E kind \in GuardedKinds : EnterGuarded(kind)
  \/ EnterDirect
  \/ StartExpr \/ GrowExpr \/ GrowOrphan
  \/ Use \/ Return \/ Finish \/ Cancel \/ Fail

Spec == Init /\ [][Next]_vars

(***************************************************************************)
(* Properties.                                                             *)
(***************************************************************************)
\* The types of the state, the shape of a parse in flight among them.
Frame == [kind : GuardedKinds \cup {"direct"}, phase : {"parse", "use"}, from : Nat,
          made : SUBSET Nat, root : Nat, size : Nat, outgrew : BOOLEAN, nested : BOOLEAN]

TypeOK ==
  /\ next_id \in Nat /\ active \in Nat /\ over_limit \in BOOLEAN
  /\ live \subseteq 1..next_id /\ escaped \subseteq 1..next_id /\ fresh \subseteq 1..next_id
  /\ frames \in Seq(Frame)
  /\ \A i \in DOMAIN frames : frames[i].made \subseteq 1..next_id
  /\ last \in [kind : GuardedKinds \cup {"direct"}, from : Nat]

\* The count of guards is the number of guarded parses in flight, however the
\* ones before ended (enter 1078, drop 1085): a count left too high would
\* never release the arena again, one too low would release it under a parse.
GuardedAt == {i \in DOMAIN frames : Guarded(frames[i])}
ActiveCounts == active = Cardinality(GuardedAt)

\* A node made by a guarded parse is held for as long as the parse and its
\* closure run, whatever runs inside them ("While one is in flight the arena
\* must not be cleared", 741).
NodesHeld == \A i \in GuardedAt : frames[i].made \subseteq live

\* What the entry points promise as a whole, in ArenaScopes' words: no parse
\* inside another takes its nodes, and the end of one takes only its own.
Scopes == INSTANCE ArenaScopes WITH
            Scope  <- 1..MaxDepth,
            Node   <- 1..MaxNodes,
            scopes <- [i \in GuardedAt |-> frames[i].made],
            usable <- live \cap UNION {frames[i].made : i \in GuardedAt},
            known  <- 1..next_id
ScopesHeld == Scopes!Spec

\* The handles a direct parse returns are good until the next parse on the
\* thread ("holds its result's nodes until the next parse", 1986).
FreshUsable == fresh \subseteq live

\* A handle that outlived its parse names a node that is gone, never one of a
\* later parse ("cannot have been captured by a later parse", 1039).
NeverCaptured == \A i \in DOMAIN frames : frames[i].made \cap escaped = {}

\* With no parse in flight the arena holds nothing but, after a direct one,
\* what was made in it, on an error as on success (1050).
NothingLeaks ==
  frames = <<>> /\ live # {} => last.kind = "direct" /\ live \subseteq last.from + 1 .. next_id

\* A parse no other ran inside is refused on its own account: the flag its
\* budget reads (747) is set exactly when one of its expressions outgrew the
\* limit, whatever an earlier parse left behind.
OwnLimitAlone ==
  Len(frames) = 1 /\ ~Top.nested => over_limit = Top.outgrew

\* What the comment on the flag says of every parse ("Set when an expression
\* outgrows NODE_LIMIT. The parse budget reads it and cancels the parse",
\* 747): an outgrown expression is not forgotten while its parse goes on.
OversizeNotForgotten == Parsing /\ Top.outgrew => over_limit
=============================================================================
