---------------------------- MODULE ParserTable ----------------------------
(***************************************************************************)
(* What the C library promises its callers (go/clib/tabnas_c.go and        *)
(* README.md): a table of parsers under handles that are never used twice. *)
(* Every call has one instant between its start and its return at which it *)
(* reads or changes the table, and each parser answers one call at a time. *)
(***************************************************************************)
EXTENDS Integers

CONSTANTS
  Callers,
  Handles     \* what a caller may pass for a handle

VARIABLES
  live,       \* the handles that stand for a parser
  used,       \* the handles ever given out
  phase,      \* of each caller's call
  asked,      \* what each caller asks for, and of which handle
  answer      \* the answer, once the call has one

vars == <<live, used, phase, asked, answer>>

Idle     == [op |-> "none", handle |-> 0]
Verdicts == {"accept", "reject", "internal"}

Init ==
  /\ live = {} /\ used = {}
  /\ phase = [c \in Callers |-> "idle"]
  /\ asked = [c \in Callers |-> Idle]
  /\ answer = [c \in Callers |-> "none"]

Ask(c, op, h) ==
  /\ phase[c] = "idle"
  /\ phase' = [phase EXCEPT ![c] = "asked"]
  /\ asked' = [asked EXCEPT ![c] = [op |-> op, handle |-> h]]
  /\ UNCHANGED <<live, used, answer>>

Answered(c, a) ==
  /\ phase' = [phase EXCEPT ![c] = "done"]
  /\ answer' = [answer EXCEPT ![c] = a]

\* A call with unusable arguments is refused before it asks anything.
Misuse(c) ==
  /\ phase[c] = "idle"
  /\ Answered(c, "usage")
  /\ UNCHANGED <<live, used, asked>>

LoadFails(c) ==
  /\ phase[c] = "asked" /\ asked[c].op = "load"
  /\ Answered(c, "grammar")
  /\ UNCHANGED <<live, used, asked>>

\* A new parser gets a handle no parser had before.
Load(c, h) ==
  /\ phase[c] = "asked" /\ asked[c].op = "load"
  /\ h \notin used
  /\ live' = live \cup {h} /\ used' = used \cup {h}
  /\ asked' = [asked EXCEPT ![c].handle = h]
  /\ Answered(c, "loaded")

Free(c) ==
  /\ phase[c] = "asked" /\ asked[c].op = "free"
  /\ live' = live \ {asked[c].handle}
  /\ Answered(c, "freed")
  /\ UNCHANGED <<used, asked>>

\* A call holds on to the parser it found, whatever becomes of the handle.
Find(c) ==
  /\ phase[c] = "asked" /\ asked[c].op = "parse"
  /\ asked[c].handle \in live
  /\ phase' = [phase EXCEPT ![c] = "found"]
  /\ UNCHANGED <<live, used, asked, answer>>

Miss(c) ==
  /\ phase[c] = "asked" /\ asked[c].op = "parse"
  /\ asked[c].handle \notin live
  /\ Answered(c, "handle")
  /\ UNCHANGED <<live, used, asked>>

Run(c) ==
  /\ phase[c] = "found"
  /\ \A d \in Callers : phase[d] = "running" => asked[d].handle # asked[c].handle
  /\ phase' = [phase EXCEPT ![c] = "running"]
  /\ UNCHANGED <<live, used, asked, answer>>

Answer(c) ==
  /\ phase[c] = "running"
  /\ \E a \in Verdicts : Answered(c, a)
  /\ UNCHANGED <<live, used, asked>>

Return(c) ==
  /\ phase[c] = "done"
  /\ phase' = [phase EXCEPT ![c] = "idle"]
  /\ asked' = [asked EXCEPT ![c] = Idle]
  /\ answer' = [answer EXCEPT ![c] = "none"]
  /\ UNCHANGED <<live, used>>

Next == \E c \in Callers :
  \/ Ask(c, "load", 0) \/ \E h \in Handles : Ask(c, "parse", h) \/ Ask(c, "free", h)
  \/ Misuse(c) \/ LoadFails(c) \/ Free(c)
  \/ \E h \in live' : Load(c, h)
  \/ Find(c) \/ Miss(c) \/ Run(c) \/ Answer(c) \/ Return(c)

Spec == Init /\ [][Next]_vars
=============================================================================
