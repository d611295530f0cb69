# Formal models of tabnas/expr

`tabnas/expr` is a grammar plugin.  It adds operator expressions (prefix,
infix, suffix, ternary, paren, and parens that take a preceding value) to the
rule based parser `tabnas` and its JSON-like base grammar `jsonic`.  It exists
three times, in TypeScript (canonical), Go and Rust, held together by shared
fixtures, and once more as a C shared library over the Go port.

The models of the parser follow the **Rust port**, `rs/src/lib.rs`.  It is the port with the
most to get right: JavaScript arrays that are rewritten in place while several
rules hold them become handles into an arena, the engine reads the result off
the other end of a replacement chain, and expressions are bounded in size.  The
model of the C library follows `go/clib/core.go`.

## Inventory

| Component | State | Operations | Talks to |
|---|---|---|---|
| Node arena (`lib.rs` 703-1096) | per thread: nodes by identity, next identity, parses in flight, over-limit flag | `new_node_under`, `dup_node`, `update_expr_node`, `set_term`, `push_term`, `grow`, `adopt`; `release_arena`, `ArenaGuard` | Pratt core, rules, budget, entry points |
| Pratt core (1331-1435) | none of its own: rewrites nodes | `prattify`, `prior_expr`, `publish_expr`, `linked_node` | arena, `expr` rule |
| Operator tables (1545-1761) | built once per instance | `make_op_map`, `make_paren_map`, `binding_power`, `operator_tin` | options, lexer, rules |
| `val`, `expr`, `paren`, `ternary` rules (2121-2335, 2681-3455) | the rule: node, counters `n` (inherited), locals `u`, depth, parent/previous/child links | ordered open and close alternates, before and after hooks | engine, arena, Pratt core |
| `list`, `map`, `elem`, `pair` rules (2360-2672) | the list being collected, on the paren or the top rule | `implicit_list`, `top_list`, `propagate_to_paren` | engine, `paren` |
| Evaluation (1438-1538, 2971-3025, 3358-3400) | values already reduced | `evaluation` and two after-close hooks | host's evaluator |
| Parse budget (2095-2111) | none: reads the flag and the stack | asked by the engine every so many passes | arena, engine |
| Entry points and scopes (3540-3620) | number of parses in flight | `parse_with`, `parse_scope` | arena |
| Realize, simplify (1098-1270) | the path of open nodes | walks of a finished tree | arena |
| Options (91-700), lexer set-up (2034-2087) | - | data conversion, one lexer check | engine |
| Translation (`alchemy/`, `ts/src/translate.ts`) | - | expression tree to text | an external renderer |
| Engine `tabnas`, base grammar `jsonic` | rule stack, lexer | external: modelled only as far as the plugin drives them | |
| TypeScript and Go ports (`ts/src/expr.ts`, `go/expr.go`) | as the Rust port | as the Rust port | |
| C library (`go/clib`) | registry of handles under a read-write lock, a mutex per instance | load, parse, free, from concurrent callers | Go port |
| `tools/port-deps.cjs`, `ci/` | - | build scripts | |

What is hard here.  One parse is sequential, so the difficulty is not
concurrency but *aliasing over long sequences of rule passes*: one node is held
by a val, the expr that replaced it, the paren that will close over it and the
ternary that takes it as a branch, while the Pratt core rewrites it in place.
An alternate's condition often reads a counter set many passes earlier.  The
size limit is kept by bookkeeping at every node operation, on one node of each
expression, and is asked about only every so many passes.  Concurrency exists
in two places: parses nested on one thread share the arena (`ArenaLifecycle`),
and callers of the C library share a registry (`CLib`).  Implicit lists add a
second kind of aliasing: the canonical port shares one array between the rules
that collect it, this one copies a container on write and keeps the copies in
step by hand, through shared node cells, the paren and the replacement chain,
while the evaluator replaces trees by values between two members.  `PROJECT.json`
(`hazards`) lists each of these at the line where it bites.

What makes each part correct:

- *arena*: identities and roots are stable, the count of a root never falls
  behind the nodes under it, and outgrowing the limit is always flagged;
- *Pratt core and rules*: the result holds every token of the source once, in
  order; it is a tree; it respects the binding powers; every paren is a node;
  ternaries are looser than every operator and chain to the right; only an
  operator at the end of the source lacks an operand;
- *result*: the last rule hands back the expression the first rule holds;
- *budget*: every parse ends, and nothing larger than the limit goes unflagged;
- *lists*: no member is lost, repeated or collected on the wrong paren, a
  separator separates two members, and a list is looser than any operator;
- *evaluation*: every operator is reduced, once, its operands first, and the
  parse hands back values and no tree;
- *C library*: its calls look atomic, one engine runs one parse at a time, and
  every call returns;
- *arena life cycle*: no handle is used after its parse was released, and one
  parse's limit is not another's.

## Modules

`NodeArena` - the arena as a record of nodes (a sequence, since identities are
handed out in order and never reused while a parse runs) and the over-limit
flag.  Each function of the code that changes the arena is an operator from an
arena to an arena.  A value is `Undefined`, a `Leaf` standing for the input
token it was read from, or a `Handle`.

`ExprOps` - the operator table as CONSTANTS: families of token to powers, with
the fallbacks of `binding_power` and the term counts of `Anyfix::terms`; and
what the plugin relies on in a table, as ASSUMEs.

`ExprRules` - the four rules over the engine's rule stack.

| Variable | Code |
|---|---|
| `input`, `at` | the tokens the lexer has produced, the position of `context.t0()` |
| `arena` | `ARENA` and `OVER_LIMIT` |
| `rules`, `stack`, `cur` | the engine's rules (every one ever made), its `rule_stack`, the rule being processed |
| `pratt` | the activation of `prattify`: operator, and the node it has descended to |
| `status`, `result` | how the parse stands, the node of the last rule |

A rule record keeps `node` (`rule.node`), `attach` (`u.expr_attach`), `n` and
`depth` (the counters a child inherits, and `n.expr_paren_depth_*`, as a set of
paren names), the rule's own `depth` mark (`u.expr_paren_depth_*`), `preval`,
`step`, `tparen`, `tname` (the `u` entries of parens and ternaries) and the
links `parent`, `prev`, `child`.  The alternates of a pass are an ordered table
of conditions, and `FirstMatch` picks one as the engine does; each action then
makes the whole pass, hooks included.  The Pratt recursion alone is taken one
level a step.

Tokens are chosen nondeterministically at the moment the parse first looks at
them, which covers every source up to `MaxTokens` without enumerating sources.
Where an implicit list starts or a token belongs to the base grammar this module
stops (`status = "base"`), and there only.

`ExprLists` - the same rules carried on into implicit lists, and the evaluator.
It takes the actions of `ExprRules` as they are, except the ones at which a list
may begin or a tree be reduced (`Base_`, `ExprCloseEnd`, `TernaryCloseElse`),
which it gives in full.

| Variable | Code |
|---|---|
| `lists` | the arrays a list has been at each of its members (an array is copied on write, so each is a value that never changes) |
| `evaluator` | `options.evaluate`: none, one that returns plain values, one that returns nodes |
| `reductions` | history: the evaluator's calls, with the operator, its token and its reduced terms |
| `marked` | `EVALUATED` |

`ExprListTop` is `top_list`, `ExprListInner` is `implicit_list`,
`TernaryListStart` is the part of `implicit_ternary_action` that makes a list;
`ValListStart`, `ListOpen`, `ElemOpen`, `ElemClose` and `ListClose` are the base
grammar's rules with the alternates and hooks the plugin puts before them.
Rules that share a node cell are written together (`CellOf`).  An evaluation is
part of the pass whose after-close hook runs it; one that would not come back,
on a tree that contains itself, ends the parse as an overflow of the stack.

`ExprListProps` - the properties of lists, of the calls of the evaluator, and of
the value handed back, for TLC.

`ExprProps` - the properties of the result that take a walk over the tree; the
other properties of the four rules are at the end of `ExprRules`.
They walk trees with recursive operators, so this module is for TLC.

`ArenaLifecycle` - the arena over the parses of one thread.  What happens inside
a parse is the other modules' subject; here a parse starts an expression or
grows it, and may outgrow the limit.

| Variable | Code |
|---|---|
| `live`, `next_id`, `active` | `Arena.nodes` (identities only), `next_id`, `active` |
| `over_limit` | `OVER_LIMIT` |
| `frames` | the call stack: the parses in flight, each with its entry point, the nodes made in it and the expression it builds |
| `escaped`, `fresh`, `last` | history: handles a caller may have kept, the result of a direct parse until the next parse, the last parse to end |

`EnterGuarded` is `parse_with`, `parse_simplified` or `parse_scope` up to the
engine's prepare hook; `EnterDirect` is `Tabnas::parse`, whose prepare hook runs
`release_arena`; `Ending`, with `Return`, `Finish`, `Cancel` or `Fail`, is the
drop of `ArenaGuard`.  A parse may start while another works (from an evaluator
or a callback), and inside the closure of `parse_scope`.

`ArenaScopes` - what that arena promises: each parse in flight has nodes of its
own, they stay usable until it ends, its end takes no others, and an identity is
handed out once.  `ArenaLifecycle` implements it, with the guarded parses as
the scopes.

`CLib` - the C library called by several threads.  `pc[c]` is the statement the
thread `c` is about to take in `loadGrammar`, `parseWith` or `freeGrammar`; a
step is what one thread does between two points at which another may interfere,
so every access to the registry and to the counter is a step of its own, inside
the lock or not.

| Variable | Code |
|---|---|
| `loaded`, `nextID` | `loaded` (the handles in the map) and `nextID` |
| `writer`, `readers` | `reg`, the `sync.RWMutex`: the writer that has asked for it, and the readers in it |
| `owner` | `instance.mu`: who holds each parser's mutex |
| `pc`, `asked`, `found`, `reply` | each thread's call: where it is, what it is about, whether `g` was found, what it will answer |

`ParserTable` - what the library promises: a table of parsers under handles that
are never used twice, each call with one instant at which it reads or changes
the table.  `CLib` implements it, the map access being that instant.

`MCExpr`, `MCLists` - tables for TLC.  `MCFixtures` - rows of `test/spec/*.tsv`
replayed through `ExprLists`: a check of the model against the tests the ports are held
to, as much as of the code.

`NodeArenaProofs`, `PrattProofs`, `ExprTypesProofs`, `ExprTreeProofs`,
`ExprChainProofs`, `ExprRootProofs` (each extends the one before it),
`ArenaLifecycleProofs`, `CLibProofs` - the theorems.

Operators marked `MUTANT` are plausible mistakes in the definition that follows
them.  None is used by the models: each shows that one property of one run
notices the mistake.

## Runs

| Run | Bounds | What it shows |
|---|---|---|
| `operators` | 7 tokens; prefix, two infixes (one of them also the prefix's token, one right-associative), a tight suffix, a paren that may take a preceding value; limit 3 | completeness, precedence, acyclicity, the result, dangling operands, parens, counts that cover trees and are never behind, roots that stand, trees that grow downward, nodes that fit their operator |
| `ends` | 4 tokens, with a ternary and the comma; rule stack of 3; no evaluator | liveness |
| `ternary` | 9 tokens; a ternary, a prefix, an infix, a paren; limit 4 | branches, ternaries and brackets never rewritten as operands, chaining to the right |
| `lifecycle` | parses three deep, four nodes, limit 2 | nested parses keep out of each other's nodes, guards are counted, the arena is emptied when the outermost parse ends in whatever way, handles that outlive a parse are never captured, and a parse alone is refused on its own account |
| `lists` | 7 tokens; a prefix, two infixes, a paren, the comma; no evaluator and one that returns values | lists keep their members and no others, separators separate, lists are loosest, precedence within a member, every operator reduced, once, to a value |
| `fixtures` | 69 rows, 32 of them lists or ternaries in lists; the real order of powers; each row plain and under an evaluator | the model agrees with the shared fixtures |
| `clib` | three threads, two of them loading, two parsing, one freeing; two parsers | the registry has no data race, calls are atomic, engines run alone, every call returns |

Why the bounds are enough.  Precedence is a relation of two operators seen
through at most one unary on each side, and `v-v^v!-` and its like fit in seven
tokens; every close alternate is reached with a pending prefix, a pending infix
and inside a paren within six.  Powers are scaled down with their order kept,
and only comparisons of powers occur.  A limit of 3 or 4 makes both sides of the
limit occur within those sources; the parse need not be cancelled when the limit
is passed, so the states beyond it are explored as well.  Parses three deep put
a guarded parse on either side of a direct one, and four nodes let one of them
outgrow the limit while another owns a node; identities run on over any number
of parses until they are used up.  Seven tokens hold a list of four members, a list
of two whose first is right-leaning (`v+v*v,v`), and a list in a paren
that is itself a member or an operand.  In the C library a hazard takes a
thread that changes the registry, one that uses it, and a third that waits for
either; the second parser is what a freed handle could come back as.

The rows of `fixtures` are a selection of one or more from each file whose
sources this table can spell: no map and no list in square brackets, no comment,
no number that matters.  A suffix after a prefix has a second expectation, under an
evaluator: the prefix is reduced as it closes and the suffix is applied to the
value (`-1!,2` in `evaluate-math.tsv`).

Five further runs expect a violation; each is a disagreement between the code and
what the repository says of it.

| Run | Shortest source | What happens |
|---|---|---|
| `dangling_ternary` | `v?v:` | the missing branch points back to the ternary; under an evaluator its reduction never returns |
| `ternary_result` | `v+v*v?v:v` | the result is the ternary over the `*` only, the sum is lost from it |
| `nested_limit` | a parse inside one that has outgrown the limit | the inner `ArenaGuard::enter` clears the flag, and the outer parse is not refused |
| `mixed_brackets` | `<-(-v>!>` | the inner paren, ended by the closer of the outer one, leaves no node: its content becomes an operand with a root of its own, the suffix rewrites it, and the growth is not counted on the root of the expression it is part of; the result has four nodes under a limit of three, and no flag |
| `raw_ternary` | `v?v:v,v` | the ternary becomes a list member before its hook looks for it, and is never reduced |

`SourceComplete` is asked of acyclic results, because of the first of these.
The `lists` run has no ternary: `dangling_ternary`, `ternary_result` and
`raw_ternary` would be met again there.
The flag leaks the other way too: a nested parse that outgrew the limit leaves
it set, since only the last guard to be dropped clears it, and the outer parse
is then refused for it.  `OwnLimitAlone` states what does hold: the flag is a
parse's own as long as no other ran inside it.

Known deviations that no run is spent on:

- `v-()-v` counts the paren twice, because a looser operator copies the node that
  holds it, so an expression within the limit may be refused.
- A prefix that opens an operand reduces the expression around it as it closes, and
  the enclosing rule reduces it again: the evaluator is called twice for an operator
  of `--v` or `v*-v`.  `ListReducedOnce` is `ReducedOnce` for the sources without a
  prefix in an operand, which are the ones the repository's own test tries
  (`evaluate_called_once_per_operator`).
- In `<(v>>` the inner paren, closed by the outer's closer, leaves no node;
  `ParensKept`, `SizeCoversTree` and `OversizeFlagged` hold of tables with one
  paren (`mixed_brackets` shows the last broken by two).
  With two parens the Pratt core may in the same way be handed a ternary whose
  paren left no node; it wraps it whole, which is what `OperandsWhole` asks.
- In `(-v?` the `?` starts an implicit list: the alternate for a space-separated
  value has no token filter.  The base grammar then finds no value there.
- A suffix looser than the operators before it wraps only the last of them
  (`v+v*v!`).  `PrecedenceKept` passes with a suffix tighter than the infixes,
  which is every suffix the shared fixtures use.
- An evaluator that returns nodes: in `()+v` the node returned for the paren is
  marked as reduced and then rewritten in place into the `+`, which is never
  reduced (`EveryReduced` with `Evaluators = {"nodes"}`).
- `1?2:?3:4`, where the last branch is missing and another ternary follows, makes
  the first the condition of the second; `TernaryChainsRight` allows exactly
  that case.

## Fairness

`FairSpec` is weak fairness of `Next`.  The engine's parse is a loop that takes
a pass whenever the parse is not over, so it never stops where a step is
possible.  No fairness is assumed of `Cancel`: the budget is asked only every
so many passes, and `Ends` holds even when it is never heard.  `FairListSpec` is
the same of `ListNext`.  `Ends` is checked without an evaluator, which changes
no rule, counter or token, only nodes: an evaluation that does not return is
the finding `dangling_ternary`, and stops the model.

`CLib` assumes strong fairness of each thread's steps within a call: a thread
that is in a call is scheduled, an engine's run ends, and a lock that is free
again and again is granted.  Go's `sync.Mutex` hands over to its oldest waiter
once that has starved, and `sync.RWMutex` lets the readers it held back in
before the next writer.  Nothing obliges a thread to begin a call.

## Proofs

TLAPS proves, for every operator table that satisfies the assumptions of
`ExprOps`, every limit and every source:

- `AlwaysLimitFlagged` (`Spec => []LimitFlagged`): no root counts more than
  `NodeLimit` nodes unless the flag the budget reads is set;
- `AlwaysOwnNodesCounted` (`Spec => []OwnNodesCounted`): a root counts at least
  the nodes that were built under it;
- `AlwaysRootsStand` (`Spec => RootsStand`): no step loses a node, changes a
  node's root or lowers a count;
- `AlwaysTypeOK` (`Spec => []TypeOK`): type correctness, of all seven variables;
- `BracketsStayWhole` (`SuffixesBelowMax => (Spec => OperandsWhole)`): no step
  turns a finished ternary or paren into an operator, or drops one of its terms;
- `AlwaysTermsFit` (`NoTernaries => (Spec => []TermsFit)`): where no ternary is
  configured, a node never has more terms than its operator takes, and a node
  that lacks one is an operator's;
- `AlwaysNoCircle` (`NoTernaries => (Spec => []NoCircle)`): where no ternary is
  configured, no node is ever part of itself, whichever operands are missing;
- `AlwaysSizeCoversTree`, `AlwaysOversizeFlagged`, `AlwaysSameResult`
  (`NoTernaries /\ OneParen /\ SuffixesBelowMax => (Spec => []...)`): where there is
  one kind of paren besides, the size a root counts covers everything that can be
  reached from it, no result with more nodes than `NodeLimit` goes unflagged, and
  the first rule of the parse holds the result of the last.

The inductive invariant is `Sound(arena)`: the arena is well formed (its nodes
are a sequence of records, a node's root is a node and is its own root), every
oversized root is flagged, and every root counts its family.  Neither
accounting property is inductive alone: `Grow` touches the root of the node it
is given, so preserving either needs that root to be a live root of its own.
`NodeArenaProofs` proves, operator by operator, that a sound arena is left sound
and *extended* (every node still there, same root, count no lower).  The one
delicate operator is `NewNodeUnder`: between adding the node and growing its
root the family is one larger than the count, so the intermediate arena is not
sound and the two are taken together (`JoinedSound`).  `PrattProofs` shows
that every action applies only such operators.  The assumption on `NodeLimit`
is that it is a positive natural number.  `MaxTokens` is taken to be at least 2:
a source that starts an expression has a token and the end.

`TypeOK` is not inductive either: which rule was pushed by which, and which
replaced which, decides what a pass may read.  `ExprTypesProofs` proves
`TypeInv`, which adds that the rules on the stack are made rules in the order
they were made, each the parent of the one above it (a rule replaced by another
is no longer there), that a paren was pushed and a ternary replaced what stands
below it (`Placed`), that links point back, and that a node, an `attach` and an
activation of `prattify` are of nodes that exist.  The lemmas `PushTyped`,
`ReplaceTyped`, `StayTyped` and `PopTyped` say what the four ways for a pass to
end keep of it, once, for all actions.

`OperandsWhole` needs `SuffixesBelowMax`, that no suffix has `MaxPower`, the
power of brackets, for its left one: such a suffix is the one operator that a
bracket does not outdo, and it would descend into the paren before it.  The
repository's tables all satisfy it, and `binding_power` would have to be given
the largest integer to break it.  The theorem reads off the Pratt core what the
comment at `prattify` claims: a wrap makes a new node of the old content, a
descent stops at a bracket.

`TermsFit` (`ExprTreeProofs`) does not hold where a ternary is configured: its
first branch is pushed beside the condition before the `:` is seen, and the
model's `dangling_ternary` run has one that holds itself.  `NoTernaries` is
`DOMAIN Ternary = {}`, which is what the plugin's defaults are.

`NoCircle` (`ExprChainProofs`) is false with ternaries for the same reason:
`dangling_ternary` is a ternary that is its own last branch.  Without them the
one place where an expression could swallow itself is `expr`'s before-close hook,
which pushes whatever the operand's val came back with.  That val was seeded with
the very expression that awaits it, and the Pratt core goes on rewriting nodes in
place while it is read; the hook's guard refuses only the expression itself, not
something that holds it.  The proof draws a line through the arena for each
expression that awaits an operand: the number of the newest node when its val
was pushed (`Mark`, which can still be read off the node, a looser operator
leaving its copy as first term).  No node above the line holds one below it.  The
invariant `ChainInv` is about the chain of waiting rules: whatever a rule holds
is beyond the lines of every expression that waits below it on the stack, or it is
the seed, unchanged (`Waits`, `Pushed`); and it says for each rule that may be on
top, val, expr and paren, opening and closing, what the next pass relies on
(`TopHolds`).  A pass changes the top of the chain only, but for vals whose node has
become a new one (`Leaves`), so the lemmas `LeftFrames`, `PushOn`, `StayOn`,
`Replaces` and `PopOn` carry the rest of the chain across it, once, and each action
has one lemma of its own.  `ParenClosed` alone reaches two rules down (`ParenHands`).
`NewTree`, `WrapTree`, `BelowTree` and `PushTree` say the same of the arena's
operators: an expression stays a tree, and every line below the node they touch
stays where it is.

`SizeCoversTree`, `OversizeFlagged` and `SameResult` (`ExprRootProofs`) rest on
one question: which expression may grow.  A root counts the nodes made under it,
and what was taken in from a paren at the size it had *then*; nothing tells it of
what is added there later.  So an expression may be rewritten only while it is
*free*, held by no node of another one (`Free`), and the rules have to forget it
the moment it is taken in.  `FamInv`, which is inductive together with `TypeInv`
of `PrattProofs` to `ExprChainProofs`, says that they do.  About the arena: an
operand built in another expression is a paren (`Kindred`), and a root counts at
least what it reaches, being the size of a set that is closed under the terms of
its nodes (`Covered`; the lemmas `NewFam`, `WrapFam`, `BelowFam` and `PushFam` of
`ExprTreeProofs` say what the arena's operators do to it, each a case of
`GrowsWithin`, `GrowsOver` or `GrowsBetween`).  About the chain: the
expressions that await an operand (`Roots`) are free, and none of them is the one
a rule above belongs to, save the seed; the val that read an
expression's first term holds it by its root, which is what `prior_expr`, a
few rules later, depends on to write to the right one (`Tied`); and the value a
closing rule hands down is a root of its own and free (`Sole`).  For the first rule that
value is the result, which is `SameResult`.

The assumptions are needed, and are true of the plugin's defaults, which have
no ternary, no suffix and the one paren `plain`.  `ternary_result` breaks
`SameResult`; `mixed_brackets`, a table with two kinds of paren and no ternary,
breaks `OversizeFlagged`: that run is what became of trying to prove
the theorem without `OneParen`.  The table of `operators`, where TLC checks the three
properties, satisfies the assumptions; `SizeCoversTree` is checked with a ternary
as well (`ternary`), and not proved there.

Of `ArenaLifecycle`, for every depth, limit and number of nodes:

- `ImplementsScopes` (`Spec => Scopes!Spec`): the refinement above;
- `AlwaysActiveCounts`, `AlwaysFreshUsable`, `AlwaysNeverCaptured`,
  `AlwaysNothingLeaks`, `AlwaysOwnLimitAlone`, `AlwaysTypeOK`: the invariants of
  those names, which are all the run checks.

The inductive invariant `IInv` adds to them that guarded parses' nodes are held,
that parses in flight own disjoint sets of nodes (`MadeApart`), and that every
parse but the innermost has had one run inside it.  Disjointness is what lets the end of
one parse be the removal of its nodes and no others; that the count of guards is
exact is what lets the arena be emptied only when no scope is left.  Each kind
of step (a start, a node, a use, an end) has one lemma for what it does to the
stack of parses, one for the invariant and one for the refinement.

Of `CLib`, for any number of threads and parsers:

- `AlwaysTypeOK`, `RegistryIsRaceFree`, `EnginesRunAlone`: the invariants
  `TypeOK`, `NoDataRace` and `OneParsePerEngine`;
- `LibraryIsTheTable` (`Spec => Linearizable`): the refinement above.

The inductive invariant reads who holds which lock off where the threads stand
(`WriterAt`, `ReaderAt`, `AloneAt`, `OwnerAt`), and what a call knows off the
steps it has taken (`FoundAt`, `CallAt`).  That the handle about to be stored is
newer than every handle known is what makes handles unique, and that a parser
found stays known, freed or not, is what lets its mutex be taken late.  The
assumption is that `Nobody` is no thread.

Only model-checked: liveness; the properties of `ExprProps` and `ExprListProps`
(`SourceComplete`, `PrecedenceKept`, `DanglesOnlyAtEnd`, `ParensKept`,
`GrowsDownward`, `TernaryLoosest`, `TernaryChainsRight`, and all those of lists),
most of which are stated with recursive walks of the tree: a walk is a RECURSIVE
operator, which the provers lose, and its value needs induction over the tree;
`CollectorsKeep` and `FixturesMatch`, as nothing is proved about `ExprLists`; and
whatever a theorem above needs an assumption for, in tables that do not satisfy it.

## Not modelled

- Lexing, options, rendering to text and build scripts: data conversion.
- `no_comma_op` (a counter only an embedding grammar sets), `preval.allow` lists,
  and `pk`, which only a `pair` rule sets.
- Lists in square brackets and maps: the `map` and `pair` rules, and the part of
  `list` and `elem` that closes on a square bracket.  The plugin's part there is
  to clear the counters on the way in and to give back a closer; the rest is
  the base grammar's.
- A list that lacks a member (`v,,v`, `v,` at the end): what the base grammar makes of it
  depends on its own options.
- `realize` and `simplify` on a tree that contains itself; of an acyclic value,
  `MCFixtures` has what `simplify` gives.
- An address that is used again: the marks of reduced arrays are by address, and
  the models give each list an identity of its own.
- The C library's replies, and the other constructs its row could be built with
  (`sharedMu`).
- Threads in the parser: the arena and the flag are thread-local, so one thread
  is the whole of it.
- Shared node cells in `ExprRules`: a pushed rule shares its parent's cell until
  it writes its own.  The alternates of the four rules install a fresh cell
  before they write, so the model gives each rule its own node; the writes
  through a linked rule's cell (`prior_expr`, the paren's after-close) are
  explicit, and so are those of `ExprLists`.

## Plan

Done: the arena, the Pratt core and the four rules, the arena's life cycle, the
C library, implicit lists and evaluation.  Left, in this order:

1. Proofs: `NoCircle` and `SizeCoversTree` with ternaries, for sources in which no
   branch is missing.
2. `PrattTree`: an abstract specification of the tree (insert an operator at
   the place on the right edge where the powers put it) and the refinement from
   the stepwise core; the same tree from the textbook Pratt parser on bounded
   inputs.
3. `map` and `pair`, and lists in square brackets, with the base grammar's rules.
4. The cycle guard of `simplify` and `realize`.
