-------------------------------- MODULE CLib --------------------------------
(***************************************************************************)
(* The C library over the Go port (go/clib/core.go), called by several     *)
(* threads at once: a registry of parsers under a read-write lock, and a   *)
(* mutex on each parser, because an engine is not safe for two parses at a *)
(* time.  One caller is one thread of the host, in at most one call.       *)
(*                                                                         *)
(* The step a caller is about to take is pc[c]; the two locks are those of *)
(* Go's sync package, which is external.  A writer that has asked for the  *)
(* registry keeps new readers out while the present ones leave.  Building  *)
(* a parser and running it are one step each, with any of their outcomes.  *)
(***************************************************************************)
EXTENDS Integers, FiniteSets

CONSTANTS
  Loaders, Freers, Parsers,   \* the threads that load, free and parse (the
                              \* code lets each do all; TLC's run fewer)
  Nobody,
  MaxHandles                  \* bound on the parsers loaded in one behaviour

Callers == Loaders \cup Freers \cup Parsers

ASSUME CallersAssumption == Nobody \notin Callers /\ MaxHandles \in Nat

VARIABLES
  pc,
  asked,          \* the call, and the handle it is about (0: none yet)
  found,          \* g # nil, of a parse that has looked its handle up
  reply,
  loaded,         \* the handles in the registry
  nextID,
  owner,          \* handle |-> the caller that holds its engine's mutex
  writer,         \* the caller that holds reg, or waits for its readers
  readers

registry == <<loaded, nextID>>
reg      == <<writer, readers>>
vars     == <<pc, asked, found, reply, loaded, nextID, owner, writer, readers>>

Idle    == [op |-> "none", handle |-> 0]
Handles == 1..MaxHandles      \* the handles a caller may name, issued yet or not

Init ==
  /\ pc = [c \in Callers |-> "idle"]
  /\ asked = [c \in Callers |-> Idle]
  /\ found = [c \in Callers |-> FALSE]
  /\ reply = [c \in Callers |-> "none"]
  /\ loaded = {} /\ nextID = 0
  /\ owner = [h \in {} |-> Nobody]
  /\ writer = Nobody /\ readers = {}

Goes(c, from, to) == pc[c] = from /\ pc' = [pc EXCEPT ![c] = to]
Begins(c, op, h)  == asked' = [asked EXCEPT ![c] = [op |-> op, handle |-> h]]
Says(c, what)     == reply' = [reply EXCEPT ![c] = what]

(***************************************************************************)
(* tabnas_grammar: loadGrammar                                             *)
(***************************************************************************)
\* The loads that will still take a handle (the bound on them only).
Pending == {c \in Callers : asked[c].op = "load" /\ pc[c] \in {"new", "lock", "drain", "assign"}}

\* Unusable arguments, and options the library does not define; a parse is
\* refused in the same way when its source is unusable.
Misuse(c) ==
  /\ Goes(c, "idle", "return") /\ Says(c, "usage")
  /\ UNCHANGED <<asked, found, registry, owner, reg>>

LoadCall(c) ==
  /\ nextID + Cardinality(Pending) < MaxHandles
  /\ Goes(c, "idle", "new") /\ Begins(c, "load", 0)
  /\ UNCHANGED <<found, reply, registry, owner, reg>>

\* safeNew, outside every lock; a panic is contained and is a failure too.
NewFails(c) ==
  /\ Goes(c, "new", "return") /\ Says(c, "grammar")
  /\ UNCHANGED <<asked, found, registry, owner, reg>>

NewDone(c) ==
  /\ Goes(c, "new", "lock")
  /\ UNCHANGED <<asked, found, reply, registry, owner, reg>>

(***************************************************************************)
(* reg.Lock, in two steps: the other writers, then the readers.            *)
(***************************************************************************)
LockReg(c) ==
  /\ writer = Nobody
  /\ Goes(c, "lock", "drain") /\ writer' = c
  /\ UNCHANGED <<asked, found, reply, registry, owner, readers>>

Drained(c) ==
  /\ readers = {}
  /\ Goes(c, "drain", IF asked[c].op = "load" THEN "assign" ELSE "delete")
  /\ UNCHANGED <<asked, found, reply, registry, owner, reg>>

\* MUTANT of AssignID: the handle is the number of parsers there will be.
AssignLength(c) ==
  /\ Goes(c, "assign", "store")
  /\ nextID' = Cardinality(loaded) + 1
  /\ asked' = [asked EXCEPT ![c].handle = Cardinality(loaded) + 1]
  /\ UNCHANGED <<found, reply, loaded, owner, reg>>

\* MUTANT of AssignID: the counter is read before it is raised.
AssignBefore(c) ==
  /\ Goes(c, "assign", "store")
  /\ nextID' = nextID + 1
  /\ asked' = [asked EXCEPT ![c].handle = nextID]
  /\ UNCHANGED <<found, reply, loaded, owner, reg>>

AssignID(c) ==
  /\ Goes(c, "assign", "store")
  /\ nextID' = nextID + 1
  /\ asked' = [asked EXCEPT ![c].handle = nextID + 1]
  /\ UNCHANGED <<found, reply, loaded, owner, reg>>

Store(c) ==
  /\ Goes(c, "store", "unlock")
  /\ loaded' = loaded \cup {asked[c].handle}
  /\ owner' = [h \in DOMAIN owner \cup {asked[c].handle} |->
                 IF h = asked[c].handle THEN Nobody ELSE owner[h]]
  /\ UNCHANGED <<asked, found, reply, nextID, reg>>

UnlockReg(c) ==
  /\ Goes(c, "unlock", "return") /\ writer' = Nobody
  /\ Says(c, IF asked[c].op = "load" THEN "loaded" ELSE "freed")
  /\ UNCHANGED <<asked, found, registry, owner, readers>>

(***************************************************************************)
(* tabnas_grammar_free: freeGrammar.  An engine in use lives on with the   *)
(* call that holds it.                                                     *)
(***************************************************************************)
FreeCall(c, h) ==
  /\ Goes(c, "idle", "lock") /\ Begins(c, "free", h)
  /\ UNCHANGED <<found, reply, registry, owner, reg>>

Delete(c) ==
  /\ Goes(c, "delete", "unlock")
  /\ loaded' = loaded \ {asked[c].handle}
  /\ UNCHANGED <<asked, found, reply, nextID, owner, reg>>

(***************************************************************************)
(* tabnas_parse: parseWith                                                 *)
(***************************************************************************)
\* MUTANT of ParseCall: the registry is read without its lock.
ParseUnlocked(c, h) ==
  /\ Goes(c, "idle", "lookup") /\ Begins(c, "parse", h)
  /\ UNCHANGED <<found, reply, registry, owner, reg>>

ParseCall(c, h) ==
  /\ Goes(c, "idle", "rlock") /\ Begins(c, "parse", h)
  /\ UNCHANGED <<found, reply, registry, owner, reg>>

RLock(c) ==
  /\ writer = Nobody
  /\ Goes(c, "rlock", "lookup") /\ readers' = readers \cup {c}
  /\ UNCHANGED <<asked, found, reply, registry, owner, writer>>

Lookup(c) ==
  /\ Goes(c, "lookup", "runlock")
  /\ found' = [found EXCEPT ![c] = asked[c].handle \in loaded]
  /\ UNCHANGED <<asked, reply, registry, owner, reg>>

RUnlockFound(c) ==
  /\ found[c] /\ Goes(c, "runlock", "mutex") /\ readers' = readers \ {c}
  /\ UNCHANGED <<asked, found, reply, registry, owner, writer>>

RUnlockMissed(c) ==
  /\ ~found[c] /\ Goes(c, "runlock", "return") /\ readers' = readers \ {c}
  /\ Says(c, "handle")
  /\ UNCHANGED <<asked, found, registry, owner, writer>>

\* MUTANT of LockEngine: the engine's mutex is not taken.
LockEngineNot(c) ==
  /\ Goes(c, "mutex", "engine")
  /\ owner' = [owner EXCEPT ![asked[c].handle] = c]
  /\ UNCHANGED <<asked, found, reply, registry, reg>>

LockEngine(c) ==
  /\ pc[c] = "mutex" /\ owner[asked[c].handle] = Nobody
  /\ Goes(c, "mutex", "engine")
  /\ owner' = [owner EXCEPT ![asked[c].handle] = c]
  /\ UNCHANGED <<asked, found, reply, registry, reg>>

\* safeParse returns whatever the engine does: a value, an error that rejects
\* the input, or a panic, contained and reported as internal.
EngineAnswers(c) ==
  /\ Goes(c, "engine", "release")
  /\ \E verdict \in {"accept", "reject", "internal"} : Says(c, verdict)
  /\ UNCHANGED <<asked, found, registry, owner, reg>>

\* MUTANT of UnlockEngine: a panic leaves the mutex locked.
UnlockEngineUnlessPanic(c) ==
  /\ Goes(c, "release", "return")
  /\ owner' = [owner EXCEPT ![asked[c].handle] = IF reply[c] = "internal" THEN @ ELSE Nobody]
  /\ UNCHANGED <<asked, found, reply, registry, reg>>

UnlockEngine(c) ==
  /\ Goes(c, "release", "return")
  /\ owner' = [owner EXCEPT ![asked[c].handle] = Nobody]
  /\ UNCHANGED <<asked, found, reply, registry, reg>>

(***************************************************************************)
(* The reply is written and handed over, with no lock held.                *)
(***************************************************************************)
Return(c) ==
  /\ Goes(c, "return", "idle")
  /\ asked' = [asked EXCEPT ![c] = Idle]
  /\ found' = [found EXCEPT ![c] = FALSE]
  /\ Says(c, "none")
  /\ UNCHANGED <<registry, owner, reg>>

Calls(c) ==
  \/ Misuse(c)
  \/ c \in Loaders /\ LoadCall(c)
  \/ \E h \in Handles : c \in Freers /\ FreeCall(c, h)
  \/ \E h \in Handles : c \in Parsers /\ ParseCall(c, h)

\* The steps of a call under way: at each point of it there is one.
Proceeds(c) ==
  \/ NewFails(c) \/ NewDone(c)
  \/ LockReg(c) \/ Drained(c) \/ AssignID(c) \/ Store(c) \/ Delete(c) \/ UnlockReg(c)
  \/ RLock(c) \/ Lookup(c) \/ RUnlockFound(c) \/ RUnlockMissed(c)
  \/ LockEngine(c) \/ EngineAnswers(c) \/ UnlockEngine(c)
  \/ Return(c)

Next == \E c \in Callers : Calls(c) \/ Proceeds(c)

Spec == Init /\ [][Next]_vars

(***************************************************************************)
(* A thread in a call keeps running, and the engine's run ends.  A lock    *)
(* that is free again and again is granted, hence strong fairness: a       *)
(* sync.Mutex hands over to its oldest waiter once that has starved, and   *)
(* an RWMutex lets the readers it held back in before the next writer.     *)
(* Nothing obliges a thread to begin a call.                               *)
(***************************************************************************)
FairSpec == Spec /\ \A c \in Callers : SF_vars(Proceeds(c))

(***************************************************************************)
(* Properties                                                              *)
(***************************************************************************)
Holding == {"drain", "assign", "store", "delete", "unlock"}
Points  == Holding \cup {"idle", "new", "lock", "rlock", "lookup", "runlock",
                         "mutex", "engine", "release", "return"}
Replies == {"none", "usage", "grammar", "loaded", "freed", "handle",
            "accept", "reject", "internal"}

\* The types; an engine stays known for as long as a call may use it.
TypeOK ==
  /\ pc \in [Callers -> Points]
  /\ asked \in [Callers -> [op : {"none", "load", "parse", "free"}, handle : Int]]
  /\ found \in [Callers -> BOOLEAN]
  /\ reply \in [Callers -> Replies]
  /\ nextID \in Nat /\ loaded \subseteq 1..nextID
  /\ DOMAIN owner \subseteq 1..nextID /\ loaded \subseteq DOMAIN owner
  /\ owner \in [DOMAIN owner -> Callers \cup {Nobody}]
  /\ writer \in Callers \cup {Nobody} /\ readers \subseteq Callers

\* No two threads touch the registry at once, one of them writing: the map
\* and the counter are plain Go data, and such a race is undefined.
Reads(c)  == pc[c] = "lookup"
Writes(c) == pc[c] \in {"assign", "store", "delete"}

NoDataRace ==
  \A c, d \in Callers : c # d /\ Writes(c) => ~Writes(d) /\ ~Reads(d)

\* An engine runs one parse at a time, though any thread may hold its handle
\* and the handle may be freed and its neighbours loaded meanwhile.
OneParsePerEngine ==
  \A c, d \in Callers :
    c # d /\ pc[c] = "engine" /\ pc[d] = "engine" => asked[c].handle # asked[d].handle

\* The library is the table it promises to be: whatever the interleaving of
\* its steps, each call reads or changes the table at one instant, no handle
\* comes back, and a freed handle never disturbs the parse that found it.
Phase(c) ==
  CASE pc[c] = "idle" -> "idle"
    [] pc[c] = "mutex" \/ (pc[c] = "runlock" /\ found[c]) -> "found"
    [] pc[c] = "engine" -> "running"
    [] pc[c] \in {"unlock", "release", "return"} \/ (pc[c] = "runlock" /\ ~found[c]) -> "done"
    [] OTHER -> "asked"

Answer(c) ==
  CASE pc[c] = "unlock" -> IF asked[c].op = "load" THEN "loaded" ELSE "freed"
    [] pc[c] = "runlock" /\ ~found[c] -> "handle"
    [] OTHER -> reply[c]

Asked(c) == IF pc[c] = "store" THEN [asked[c] EXCEPT !.handle = 0] ELSE asked[c]

Table == INSTANCE ParserTable WITH
  live   <- loaded,
  used   <- DOMAIN owner,
  phase  <- [c \in Callers |-> Phase(c)],
  asked  <- [c \in Callers |-> Asked(c)],
  answer <- [c \in Callers |-> Answer(c)]

Linearizable == Table!Spec

\* Every call returns: no lock is left behind on any way out of a call, and no
\* two calls wait for one another.
Returns == \A c \in Callers : pc[c] # "idle" ~> pc[c] = "idle"
=============================================================================
