----------------------------- MODULE CLibProofs -----------------------------
(***************************************************************************)
(* The C library keeps its registry and its engines to one thread at a     *)
(* time and is the table of parsers it promises to be, for any number of   *)
(* threads and of handles.                                                 *)
(***************************************************************************)
EXTENDS CLib, TLAPS

(***************************************************************************)
(* The inductive invariant: who holds which lock is read off where the     *)
(* threads stand, and what a call knows off the steps it has taken.        *)
(***************************************************************************)
\* The write lock is with the thread between asking for it and giving it
\* back, and from the moment it is granted there are no readers.
WriterAt(c)  == (writer = c <=> pc[c] \in Holding)
ReaderAt(c)  == (c \in readers <=> pc[c] \in {"lookup", "runlock"})
AloneAt(c)   == pc[c] \in Holding \ {"drain"} => readers = {}

\* An engine's mutex is with the thread that runs it.
OwnerAt(c)   ==
  \A h \in DOMAIN owner :
    owner[h] = c <=> pc[c] \in {"engine", "release"} /\ asked[c].handle = h

\* What a call has found is an engine that stays known.
FoundAt(c)   ==
  /\ found[c] => pc[c] \in {"runlock", "mutex", "engine", "release", "return"}
                 /\ asked[c].handle \in DOMAIN owner
  /\ pc[c] \in {"mutex", "engine", "release"} => found[c]

\* The operation each step belongs to, and what it has got so far.
CallAt(c)    ==
  /\ pc[c] = "idle" => asked[c] = Idle
  /\ pc[c] \in {"new", "assign", "store"} => asked[c].op = "load"
  /\ pc[c] = "delete" => asked[c].op = "free"
  /\ pc[c] \in {"lock", "drain", "unlock"} => asked[c].op \in {"load", "free"}
  /\ pc[c] \in {"rlock", "lookup", "runlock", "mutex", "engine"} => asked[c].op = "parse"
  /\ asked[c].op = "load" /\ pc[c] \in {"new", "lock", "drain", "assign"} => asked[c].handle = 0
  /\ pc[c] = "store" => asked[c].handle = nextID /\ nextID \in Nat \ {0}
                        /\ nextID \notin DOMAIN owner
  /\ pc[c] \notin {"release", "return"} => reply[c] = "none"

At(c) == WriterAt(c) /\ ReaderAt(c) /\ AloneAt(c) /\ OwnerAt(c) /\ FoundAt(c) /\ CallAt(c)

IInv == TypeOK /\ \A c \in Callers : At(c)

LEMMA InitIInv == Init => IInv
<1>1. SUFFICES ASSUME Init PROVE IInv
  OBVIOUS
<1>2. TypeOK
  BY <1>1, SMT DEF Init, TypeOK, Idle, Points, Replies, Holding
<1>3. \A c \in Callers : At(c)
  BY <1>1, CallersAssumption
  DEF Init, At, WriterAt, ReaderAt, AloneAt, OwnerAt, FoundAt, CallAt, Idle, Holding
<1>4. QED BY <1>2, <1>3 DEF IInv

(***************************************************************************)
(* A step of one thread leaves every other thread where it was.            *)
(***************************************************************************)
Still(d) == pc'[d] = pc[d] /\ asked'[d] = asked[d] /\ found'[d] = found[d] /\ reply'[d] = reply[d]

LEMMA OthersStill ==
  ASSUME TypeOK, NEW c \in Callers, Calls(c) \/ Proceeds(c)
  PROVE  \A d \in Callers : d # c => Still(d)
BY DEF TypeOK, Still, Calls, Proceeds, Goes, Begins, Says, Misuse, LoadCall, FreeCall,
  ParseCall, NewFails, NewDone, LockReg, Drained, AssignID, Store, Delete, UnlockReg,
  RLock, Lookup, RUnlockFound, RUnlockMissed, LockEngine, EngineAnswers, UnlockEngine, Return

(***************************************************************************)
(* Each step keeps the invariant: types, the thread that takes the step,   *)
(* and the threads that do not.                                            *)
(***************************************************************************)
LEMMA StepIInv ==
  ASSUME IInv, NEW c \in Callers, Calls(c) \/ Proceeds(c)
  PROVE  IInv'
<1> USE CallersAssumption DEF Goes, Begins, Says, registry, reg
<1>0. TypeOK /\ (\A d \in Callers : At(d)) /\ \A d \in Callers : d # c => Still(d)
  BY OthersStill DEF IInv
<1>1. ASSUME Misuse(c) PROVE IInv'
  <2>1. TypeOK'
    BY <1>0, <1>1 DEF TypeOK, At, CallAt, FoundAt, Points, Holding, Replies, Idle, Handles, Misuse
  <2>2. At(c)'
    BY <1>0, <1>1
    DEF TypeOK, At, WriterAt, ReaderAt, AloneAt, OwnerAt, FoundAt, CallAt, Holding, Idle, Misuse
  <2>3. \A d \in Callers : d # c => At(d)'
    BY <1>0, <1>1
    DEF TypeOK, Still, At, WriterAt, ReaderAt, AloneAt, OwnerAt, FoundAt, CallAt, Holding, Misuse
  <2>4. QED BY <2>1, <2>2, <2>3 DEF IInv
<1>2. ASSUME LoadCall(c) PROVE IInv'
  <2>1. TypeOK'
    BY <1>0, <1>2 DEF TypeOK, At, CallAt, FoundAt, Points, Holding, Replies, Idle, Handles, LoadCall
  <2>2. At(c)'
    BY <1>0, <1>2
    DEF TypeOK, At, WriterAt, ReaderAt, AloneAt, OwnerAt, FoundAt, CallAt, Holding, Idle, LoadCall
  <2>3. \A d \in Callers : d # c => At(d)'
    BY <1>0, <1>2
    DEF TypeOK, Still, At, WriterAt, ReaderAt, AloneAt, OwnerAt, FoundAt, CallAt, Holding, LoadCall
  <2>4. QED BY <2>1, <2>2, <2>3 DEF IInv
<1>3. ASSUME NEW h \in Handles, FreeCall(c, h) PROVE IInv'
  <2>1. TypeOK'
    BY <1>0, <1>3 DEF TypeOK, At, CallAt, FoundAt, Points, Holding, Replies, Idle, Handles, FreeCall
  <2>2. At(c)'
    BY <1>0, <1>3
    DEF TypeOK, At, WriterAt, ReaderAt, AloneAt, OwnerAt, FoundAt, CallAt, Holding, Idle, FreeCall
  <2>3. \A d \in Callers : d # c => At(d)'
    BY <1>0, <1>3
    DEF TypeOK, Still, At, WriterAt, ReaderAt, AloneAt, OwnerAt, FoundAt, CallAt, Holding, FreeCall
  <2>4. QED BY <2>1, <2>2, <2>3 DEF IInv
<1>4. ASSUME NEW h \in Handles, ParseCall(c, h) PROVE IInv'
  <2>1. TypeOK'
    BY <1>0, <1>4 DEF TypeOK, At, CallAt, FoundAt, Points, Holding, Replies, Idle, Handles, ParseCall
  <2>2. At(c)'
    BY <1>0, <1>4
    DEF TypeOK, At, WriterAt, ReaderAt, AloneAt, OwnerAt, FoundAt, CallAt, Holding, Idle, ParseCall
  <2>3. \A d \in Callers : d # c => At(d)'
    BY <1>0, <1>4
    DEF TypeOK, Still, At, WriterAt, ReaderAt, AloneAt, OwnerAt, FoundAt, CallAt, Holding, ParseCall
  <2>4. QED BY <2>1, <2>2, <2>3 DEF IInv
<1>5. ASSUME NewFails(c) PROVE IInv'
  <2>1. TypeOK'
    BY <1>0, <1>5 DEF TypeOK, At, CallAt, FoundAt, Points, Holding, Replies, Idle, Handles, NewFails
  <2>2. At(c)'
    BY <1>0, <1>5
    DEF TypeOK, At, WriterAt, ReaderAt, AloneAt, OwnerAt, FoundAt, CallAt, Holding, Idle, NewFails
  <2>3. \A d \in Callers : d # c => At(d)'
    BY <1>0, <1>5
    DEF TypeOK, Still, At, WriterAt, ReaderAt, AloneAt, OwnerAt, FoundAt, CallAt, Holding, NewFails
  <2>4. QED BY <2>1, <2>2, <2>3 DEF IInv
<1>6. ASSUME NewDone(c) PROVE IInv'
  <2>1. TypeOK'
    BY <1>0, <1>6 DEF TypeOK, At, CallAt, FoundAt, Points, Holding, Replies, Idle, Handles, NewDone
  <2>2. At(c)'
    BY <1>0, <1>6
    DEF TypeOK, At, WriterAt, ReaderAt, AloneAt, OwnerAt, FoundAt, CallAt, Holding, Idle, NewDone
  <2>3. \A d \in Callers : d # c => At(d)'
    BY <1>0, <1>6
    DEF TypeOK, Still, At, WriterAt, ReaderAt, AloneAt, OwnerAt, FoundAt, CallAt, Holding, NewDone
  <2>4. QED BY <2>1, <2>2, <2>3 DEF IInv
<1>7. ASSUME LockReg(c) PROVE IInv'
  <2>1. TypeOK'
    BY <1>0, <1>7 DEF TypeOK, At, CallAt, FoundAt, Points, Holding, Replies, Idle, Handles, LockReg
  <2>2. At(c)'
    BY <1>0, <1>7
    DEF TypeOK, At, WriterAt, ReaderAt, AloneAt, OwnerAt, FoundAt, CallAt, Holding, Idle, LockReg
  <2>3. \A d \in Callers : d # c => At(d)'
    BY <1>0, <1>7
    DEF TypeOK, Still, At, WriterAt, ReaderAt, AloneAt, OwnerAt, FoundAt, CallAt, Holding, LockReg
  <2>4. QED BY <2>1, <2>2, <2>3 DEF IInv
<1>8. ASSUME Drained(c) PROVE IInv'
  <2>1. TypeOK'
    BY <1>0, <1>8 DEF TypeOK, At, CallAt, FoundAt, Points, Holding, Replies, Idle, Handles, Drained
  <2>2. At(c)'
    BY <1>0, <1>8
    DEF TypeOK, At, WriterAt, ReaderAt, AloneAt, OwnerAt, FoundAt, CallAt, Holding, Idle, Drained
  <2>3. \A d \in Callers : d # c => At(d)'
    BY <1>0, <1>8
    DEF TypeOK, Still, At, WriterAt, ReaderAt, AloneAt, OwnerAt, FoundAt, CallAt, Holding, Drained
  <2>4. QED BY <2>1, <2>2, <2>3 DEF IInv
<1>9. ASSUME AssignID(c) PROVE IInv'
  <2>1. TypeOK'
    BY <1>0, <1>9 DEF TypeOK, At, CallAt, FoundAt, Points, Holding, Replies, Idle, Handles, AssignID
  <2>2. At(c)'
    BY <1>0, <1>9
    DEF TypeOK, At, WriterAt, ReaderAt, AloneAt, OwnerAt, FoundAt, CallAt, Holding, Idle, AssignID
  <2>3. \A d \in Callers : d # c => At(d)'
    BY <1>0, <1>9
    DEF TypeOK, Still, At, WriterAt, ReaderAt, AloneAt, OwnerAt, FoundAt, CallAt, Holding, AssignID
  <2>4. QED BY <2>1, <2>2, <2>3 DEF IInv
<1>10. ASSUME Store(c) PROVE IInv'
  <2>1. TypeOK'
    BY <1>0, <1>10 DEF TypeOK, At, CallAt, FoundAt, Points, Holding, Replies, Idle, Handles, Store
  <2>2. At(c)'
    BY <1>0, <1>10
    DEF TypeOK, At, WriterAt, ReaderAt, AloneAt, OwnerAt, FoundAt, CallAt, Holding, Idle, Store
  <2>3. \A d \in Callers : d # c => At(d)'
    BY <1>0, <1>10
    DEF TypeOK, Still, At, WriterAt, ReaderAt, AloneAt, OwnerAt, FoundAt, CallAt, Holding, Store
  <2>4. QED BY <2>1, <2>2, <2>3 DEF IInv
<1>11. ASSUME Delete(c) PROVE IInv'
  <2>1. TypeOK'
    BY <1>0, <1>11 DEF TypeOK, At, CallAt, FoundAt, Points, Holding, Replies, Idle, Handles, Delete
  <2>2. At(c)'
    BY <1>0, <1>11
    DEF TypeOK, At, WriterAt, ReaderAt, AloneAt, OwnerAt, FoundAt, CallAt, Holding, Idle, Delete
  <2>3. \A d \in Callers : d # c => At(d)'
    BY <1>0, <1>11
    DEF TypeOK, Still, At, WriterAt, ReaderAt, AloneAt, OwnerAt, FoundAt, CallAt, Holding, Delete
  <2>4. QED BY <2>1, <2>2, <2>3 DEF IInv
<1>12. ASSUME UnlockReg(c) PROVE IInv'
  <2>1. TypeOK'
    BY <1>0, <1>12 DEF TypeOK, At, CallAt, FoundAt, Points, Holding, Replies, Idle, Handles, UnlockReg
  <2>2. At(c)'
    BY <1>0, <1>12
    DEF TypeOK, At, WriterAt, ReaderAt, AloneAt, OwnerAt, FoundAt, CallAt, Holding, Idle, UnlockReg
  <2>3. \A d \in Callers : d # c => At(d)'
    BY <1>0, <1>12
    DEF TypeOK, Still, At, WriterAt, ReaderAt, AloneAt, OwnerAt, FoundAt, CallAt, Holding, UnlockReg
  <2>4. QED BY <2>1, <2>2, <2>3 DEF IInv
<1>13. ASSUME RLock(c) PROVE IInv'
  <2>1. TypeOK'
    BY <1>0, <1>13 DEF TypeOK, At, CallAt, FoundAt, Points, Holding, Replies, Idle, Handles, RLock
  <2>2. At(c)'
    BY <1>0, <1>13
    DEF TypeOK, At, WriterAt, ReaderAt, AloneAt, OwnerAt, FoundAt, CallAt, Holding, Idle, RLock
  <2>3. \A d \in Callers : d # c => At(d)'
    BY <1>0, <1>13
    DEF TypeOK, Still, At, WriterAt, ReaderAt, AloneAt, OwnerAt, FoundAt, CallAt, Holding, RLock
  <2>4. QED BY <2>1, <2>2, <2>3 DEF IInv
<1>14. ASSUME Lookup(c) PROVE IInv'
  <2>1. TypeOK'
    BY <1>0, <1>14 DEF TypeOK, At, CallAt, FoundAt, Points, Holding, Replies, Idle, Handles, Lookup
  <2>2. At(c)'
    BY <1>0, <1>14
    DEF TypeOK, At, WriterAt, ReaderAt, AloneAt, OwnerAt, FoundAt, CallAt, Holding, Idle, Lookup
  <2>3. \A d \in Callers : d # c => At(d)'
    BY <1>0, <1>14
    DEF TypeOK, Still, At, WriterAt, ReaderAt, AloneAt, OwnerAt, FoundAt, CallAt, Holding, Lookup
  <2>4. QED BY <2>1, <2>2, <2>3 DEF IInv
<1>15. ASSUME RUnlockFound(c) PROVE IInv'
  <2>1. TypeOK'
    BY <1>0, <1>15 DEF TypeOK, At, CallAt, FoundAt, Points, Holding, Replies, Idle, Handles, RUnlockFound
  <2>2. At(c)'
    BY <1>0, <1>15
    DEF TypeOK, At, WriterAt, ReaderAt, AloneAt, OwnerAt, FoundAt, CallAt, Holding, Idle, RUnlockFound
  <2>3. \A d \in Callers : d # c => At(d)'
    BY <1>0, <1>15
    DEF TypeOK, Still, At, WriterAt, ReaderAt, AloneAt, OwnerAt, FoundAt, CallAt, Holding, RUnlockFound
  <2>4. QED BY <2>1, <2>2, <2>3 DEF IInv
<1>16. ASSUME RUnlockMissed(c) PROVE IInv'
  <2>1. TypeOK'
    BY <1>0, <1>16 DEF TypeOK, At, CallAt, FoundAt, Points, Holding, Replies, Idle, Handles, RUnlockMissed
  <2>2. At(c)'
    BY <1>0, <1>16
    DEF TypeOK, At, WriterAt, ReaderAt, AloneAt, OwnerAt, FoundAt, CallAt, Holding, Idle, RUnlockMissed
  <2>3. \A d \in Callers : d # c => At(d)'
    BY <1>0, <1>16
    DEF TypeOK, Still, At, WriterAt, ReaderAt, AloneAt, OwnerAt, FoundAt, CallAt, Holding, RUnlockMissed
  <2>4. QED BY <2>1, <2>2, <2>3 DEF IInv
<1>17. ASSUME LockEngine(c) PROVE IInv'
  <2>1. TypeOK'
    BY <1>0, <1>17 DEF TypeOK, At, CallAt, FoundAt, Points, Holding, Replies, Idle, Handles, LockEngine
  <2>2. At(c)'
    BY <1>0, <1>17
    DEF TypeOK, At, WriterAt, ReaderAt, AloneAt, OwnerAt, FoundAt, CallAt, Holding, Idle, LockEngine
  <2>3. \A d \in Callers : d # c => At(d)'
    BY <1>0, <1>17
    DEF TypeOK, Still, At, WriterAt, ReaderAt, AloneAt, OwnerAt, FoundAt, CallAt, Holding, LockEngine
  <2>4. QED BY <2>1, <2>2, <2>3 DEF IInv
<1>18. ASSUME EngineAnswers(c) PROVE IInv'
  <2>1. TypeOK'
    BY <1>0, <1>18 DEF TypeOK, At, CallAt, FoundAt, Points, Holding, Replies, Idle, Handles, EngineAnswers
  <2>2. At(c)'
    BY <1>0, <1>18
    DEF TypeOK, At, WriterAt, ReaderAt, AloneAt, OwnerAt, FoundAt, CallAt, Holding, Idle, EngineAnswers
  <2>3. \A d \in Callers : d # c => At(d)'
    BY <1>0, <1>18
    DEF TypeOK, Still, At, WriterAt, ReaderAt, AloneAt, OwnerAt, FoundAt, CallAt, Holding, EngineAnswers
  <2>4. QED BY <2>1, <2>2, <2>3 DEF IInv
<1>19. ASSUME UnlockEngine(c) PROVE IInv'
  <2>1. TypeOK'
    BY <1>0, <1>19 DEF TypeOK, At, CallAt, FoundAt, Points, Holding, Replies, Idle, Handles, UnlockEngine
  <2>2. At(c)'
    BY <1>0, <1>19
    DEF TypeOK, At, WriterAt, ReaderAt, AloneAt, OwnerAt, FoundAt, CallAt, Holding, Idle, UnlockEngine
  <2>3. \A d \in Callers : d # c => At(d)'
    BY <1>0, <1>19
    DEF TypeOK, Still, At, WriterAt, ReaderAt, AloneAt, OwnerAt, FoundAt, CallAt, Holding, UnlockEngine
  <2>4. QED BY <2>1, <2>2, <2>3 DEF IInv
<1>20. ASSUME Return(c) PROVE IInv'
  <2>1. TypeOK'
    BY <1>0, <1>20 DEF TypeOK, At, CallAt, FoundAt, Points, Holding, Replies, Idle, Handles, Return
  <2>2. At(c)'
    BY <1>0, <1>20
    DEF TypeOK, At, WriterAt, ReaderAt, AloneAt, OwnerAt, FoundAt, CallAt, Holding, Idle, Return
  <2>3. \A d \in Callers : d # c => At(d)'
    BY <1>0, <1>20
    DEF TypeOK, Still, At, WriterAt, ReaderAt, AloneAt, OwnerAt, FoundAt, CallAt, Holding, Return
  <2>4. QED BY <2>1, <2>2, <2>3 DEF IInv
<1>21. QED
  BY <1>1, <1>2, <1>3, <1>4, <1>5, <1>6, <1>7, <1>8, <1>9, <1>10, <1>11, <1>12, <1>13, <1>14, <1>15, <1>16, <1>17, <1>18, <1>19, <1>20 DEF Calls, Proceeds

(***************************************************************************)
(* Theorems                                                                *)
(***************************************************************************)
LEMMA StutterIInv == IInv /\ UNCHANGED vars => IInv'
BY DEF IInv, TypeOK, At, WriterAt, ReaderAt, AloneAt, OwnerAt, FoundAt, CallAt, vars

LEMMA AlwaysIInv == Spec => []IInv
<1>1. IInv /\ [Next]_vars => IInv'
  BY StepIInv, StutterIInv DEF Next
<1>2. QED BY InitIInv, <1>1, PTL DEF Spec

\* The library's state stays well typed, and an engine is known for as long
\* as a call may use it.
THEOREM AlwaysTypeOK == Spec => []TypeOK
BY AlwaysIInv, PTL DEF IInv

\* However many threads call it, none reads or writes the registry while
\* another writes it.
THEOREM RegistryIsRaceFree == Spec => []NoDataRace
<1>1. IInv => NoDataRace
  BY DEF IInv, At, WriterAt, ReaderAt, AloneAt, NoDataRace, Reads, Writes, Holding
<1>2. QED BY AlwaysIInv, <1>1, PTL

\* However many threads hold its handle, an engine runs one parse at a time.
THEOREM EnginesRunAlone == Spec => []OneParsePerEngine
<1>1. IInv => OneParsePerEngine
  BY CallersAssumption DEF IInv, At, OwnerAt, FoundAt, OneParsePerEngine
<1>2. QED BY AlwaysIInv, <1>1, PTL

(***************************************************************************)
(* The refinement.  The table sees of a thread its phase, what it asks and *)
(* its answer; these change only for the thread that takes the step.       *)
(***************************************************************************)
Views == {"idle", "asked", "found", "running", "done"}

LEMMA StillMapped ==
  ASSUME NEW d, Still(d)
  PROVE  Phase(d)' = Phase(d) /\ Asked(d)' = Asked(d) /\ Answer(d)' = Answer(d)
BY DEF Still, Phase, Asked, Answer

PhaseMap  == [d \in Callers |-> Phase(d)]
AskedMap  == [d \in Callers |-> Asked(d)]
AnswerMap == [d \in Callers |-> Answer(d)]

LEMMA Mapped ==
  ASSUME IInv, NEW c \in Callers, Calls(c) \/ Proceeds(c)
  PROVE  /\ PhaseMap' = [PhaseMap EXCEPT ![c] = Phase(c)']
         /\ AskedMap' = [AskedMap EXCEPT ![c] = Asked(c)']
         /\ AnswerMap' = [AnswerMap EXCEPT ![c] = Answer(c)']
<1>1. \A d \in Callers : d # c => Still(d)
  BY OthersStill DEF IInv
<1>2. \A d \in Callers : d # c => Phase(d)' = Phase(d) /\ Asked(d)' = Asked(d) /\ Answer(d)' = Answer(d)
  BY <1>1, StillMapped
<1>3. PhaseMap' = [PhaseMap EXCEPT ![c] = Phase(c)']
  BY <1>2 DEF PhaseMap
<1>4. AskedMap' = [AskedMap EXCEPT ![c] = Asked(c)']
  BY <1>2 DEF AskedMap
<1>5. AnswerMap' = [AnswerMap EXCEPT ![c] = Answer(c)']
  BY <1>2 DEF AnswerMap
<1>6. QED BY <1>3, <1>4, <1>5

\* A step the table does not see.
LEMMA Unseen ==
  ASSUME IInv, NEW c \in Callers, Calls(c) \/ Proceeds(c),
         Phase(c)' = Phase(c), Asked(c)' = Asked(c), Answer(c)' = Answer(c),
         UNCHANGED <<loaded, DOMAIN owner>>
  PROVE  UNCHANGED Table!vars
<1>1. PhaseMap' = PhaseMap /\ AskedMap' = AskedMap /\ AnswerMap' = AnswerMap
  BY Mapped DEF PhaseMap, AskedMap, AnswerMap
<1>2. QED BY <1>1 DEF Table!vars, PhaseMap, AskedMap, AnswerMap

LEMMA StepRefines ==
  ASSUME IInv, NEW c \in Callers, Calls(c) \/ Proceeds(c)
  PROVE  [Table!Next]_(Table!vars)
<1>0. At(c) /\ TypeOK
  BY DEF IInv
<1>1. /\ PhaseMap' = [PhaseMap EXCEPT ![c] = Phase(c)']
      /\ AskedMap' = [AskedMap EXCEPT ![c] = Asked(c)']
      /\ AnswerMap' = [AnswerMap EXCEPT ![c] = Answer(c)']
      /\ PhaseMap[c] = Phase(c) /\ AskedMap[c] = Asked(c) /\ AnswerMap[c] = Answer(c)
  BY Mapped DEF PhaseMap, AskedMap, AnswerMap
<1>2. ASSUME NewDone(c) PROVE [Table!Next]_(Table!vars)
  <2>1. /\ Phase(c)' = Phase(c) /\ Asked(c)' = Asked(c) /\ Answer(c)' = Answer(c)
        /\ UNCHANGED <<loaded, DOMAIN owner>>
    BY <1>0, <1>2 DEF NewDone, TypeOK, At, CallAt, FoundAt, Phase, Asked, Answer, Goes, Begins, Says, registry, reg, Idle, Holding
  <2>2. QED BY <2>1, Unseen
<1>3. ASSUME LockReg(c) PROVE [Table!Next]_(Table!vars)
  <2>1. /\ Phase(c)' = Phase(c) /\ Asked(c)' = Asked(c) /\ Answer(c)' = Answer(c)
        /\ UNCHANGED <<loaded, DOMAIN owner>>
    BY <1>0, <1>3 DEF LockReg, TypeOK, At, CallAt, FoundAt, Phase, Asked, Answer, Goes, Begins, Says, registry, reg, Idle, Holding
  <2>2. QED BY <2>1, Unseen
<1>4. ASSUME Drained(c) PROVE [Table!Next]_(Table!vars)
  <2>1. /\ Phase(c)' = Phase(c) /\ Asked(c)' = Asked(c) /\ Answer(c)' = Answer(c)
        /\ UNCHANGED <<loaded, DOMAIN owner>>
    BY <1>0, <1>4 DEF Drained, TypeOK, At, CallAt, FoundAt, Phase, Asked, Answer, Goes, Begins, Says, registry, reg, Idle, Holding
  <2>2. QED BY <2>1, Unseen
<1>5. ASSUME AssignID(c) PROVE [Table!Next]_(Table!vars)
  <2>1. /\ Phase(c)' = Phase(c) /\ Asked(c)' = Asked(c) /\ Answer(c)' = Answer(c)
        /\ UNCHANGED <<loaded, DOMAIN owner>>
    BY <1>0, <1>5 DEF AssignID, TypeOK, At, CallAt, FoundAt, Phase, Asked, Answer, Goes, Begins, Says, registry, reg, Idle, Holding
  <2>2. QED BY <2>1, Unseen
<1>6. ASSUME UnlockReg(c) PROVE [Table!Next]_(Table!vars)
  <2>1. /\ Phase(c)' = Phase(c) /\ Asked(c)' = Asked(c) /\ Answer(c)' = Answer(c)
        /\ UNCHANGED <<loaded, DOMAIN owner>>
    BY <1>0, <1>6 DEF UnlockReg, TypeOK, At, CallAt, FoundAt, Phase, Asked, Answer, Goes, Begins, Says, registry, reg, Idle, Holding
  <2>2. QED BY <2>1, Unseen
<1>7. ASSUME RLock(c) PROVE [Table!Next]_(Table!vars)
  <2>1. /\ Phase(c)' = Phase(c) /\ Asked(c)' = Asked(c) /\ Answer(c)' = Answer(c)
        /\ UNCHANGED <<loaded, DOMAIN owner>>
    BY <1>0, <1>7 DEF RLock, TypeOK, At, CallAt, FoundAt, Phase, Asked, Answer, Goes, Begins, Says, registry, reg, Idle, Holding
  <2>2. QED BY <2>1, Unseen
<1>8. ASSUME RUnlockFound(c) PROVE [Table!Next]_(Table!vars)
  <2>1. /\ Phase(c)' = Phase(c) /\ Asked(c)' = Asked(c) /\ Answer(c)' = Answer(c)
        /\ UNCHANGED <<loaded, DOMAIN owner>>
    BY <1>0, <1>8 DEF RUnlockFound, TypeOK, At, CallAt, FoundAt, Phase, Asked, Answer, Goes, Begins, Says, registry, reg, Idle, Holding
  <2>2. QED BY <2>1, Unseen
<1>9. ASSUME RUnlockMissed(c) PROVE [Table!Next]_(Table!vars)
  <2>1. /\ Phase(c)' = Phase(c) /\ Asked(c)' = Asked(c) /\ Answer(c)' = Answer(c)
        /\ UNCHANGED <<loaded, DOMAIN owner>>
    BY <1>0, <1>9 DEF RUnlockMissed, TypeOK, At, CallAt, FoundAt, Phase, Asked, Answer, Goes, Begins, Says, registry, reg, Idle, Holding
  <2>2. QED BY <2>1, Unseen
<1>10. ASSUME UnlockEngine(c) PROVE [Table!Next]_(Table!vars)
  <2>1. /\ Phase(c)' = Phase(c) /\ Asked(c)' = Asked(c) /\ Answer(c)' = Answer(c)
        /\ UNCHANGED <<loaded, DOMAIN owner>>
    BY <1>0, <1>10 DEF UnlockEngine, TypeOK, At, CallAt, FoundAt, Phase, Asked, Answer, Goes, Begins, Says, registry, reg, Idle, Holding
  <2>2. QED BY <2>1, Unseen
<1>11. ASSUME Misuse(c) PROVE [Table!Next]_(Table!vars)
  <2>1. /\ Phase(c) = "idle" /\ Phase(c)' = "done"
        /\ Asked(c)' = Asked(c) /\ Answer(c)' = "usage"
    BY <1>0, <1>11 DEF Misuse, TypeOK, At, CallAt, FoundAt, Phase, Asked, Answer, Goes, Begins, Says, registry, reg, Idle, Holding, Table!Idle
  <2>2. loaded' = loaded /\ DOMAIN owner' = DOMAIN owner
    BY <1>0, <1>11 DEF Misuse, TypeOK, registry
  <2>3. Table!Misuse(c)
    BY <1>1, <2>1, <2>2 DEF Table!Misuse, Table!Answered, Table!Idle, PhaseMap, AskedMap, AnswerMap
  <2>4. QED BY <2>3 DEF Table!Next
<1>12. ASSUME LoadCall(c) PROVE [Table!Next]_(Table!vars)
  <2>1. /\ Phase(c) = "idle" /\ Phase(c)' = "asked"
        /\ Asked(c)' = [op |-> "load", handle |-> 0] /\ Answer(c)' = Answer(c)
    BY <1>0, <1>12 DEF LoadCall, TypeOK, At, CallAt, FoundAt, Phase, Asked, Answer, Goes, Begins, Says, registry, reg, Idle, Holding, Table!Idle
  <2>2. loaded' = loaded /\ DOMAIN owner' = DOMAIN owner
    BY <1>0, <1>12 DEF LoadCall, TypeOK, registry
  <2>3. Table!Ask(c, "load", 0)
    BY <1>1, <2>1, <2>2 DEF Table!Ask, Table!Answered, Table!Idle, PhaseMap, AskedMap, AnswerMap
  <2>4. QED BY <2>3 DEF Table!Next
<1>13. ASSUME NEW h \in Handles, FreeCall(c, h) PROVE [Table!Next]_(Table!vars)
  <2>1. /\ Phase(c) = "idle" /\ Phase(c)' = "asked"
        /\ Asked(c)' = [op |-> "free", handle |-> h] /\ Answer(c)' = Answer(c)
    BY <1>0, <1>13 DEF FreeCall, TypeOK, At, CallAt, FoundAt, Phase, Asked, Answer, Goes, Begins, Says, registry, reg, Idle, Holding, Table!Idle
  <2>2. loaded' = loaded /\ DOMAIN owner' = DOMAIN owner
    BY <1>0, <1>13 DEF FreeCall, TypeOK, registry
  <2>3. Table!Ask(c, "free", h)
    BY <1>1, <2>1, <2>2 DEF Table!Ask, Table!Answered, Table!Idle, PhaseMap, AskedMap, AnswerMap
  <2>4. QED BY <2>3, <1>13 DEF Table!Next
<1>14. ASSUME NEW h \in Handles, ParseCall(c, h) PROVE [Table!Next]_(Table!vars)
  <2>1. /\ Phase(c) = "idle" /\ Phase(c)' = "asked"
        /\ Asked(c)' = [op |-> "parse", handle |-> h] /\ Answer(c)' = Answer(c)
    BY <1>0, <1>14 DEF ParseCall, TypeOK, At, CallAt, FoundAt, Phase, Asked, Answer, Goes, Begins, Says, registry, reg, Idle, Holding, Table!Idle
  <2>2. loaded' = loaded /\ DOMAIN owner' = DOMAIN owner
    BY <1>0, <1>14 DEF ParseCall, TypeOK, registry
  <2>3. Table!Ask(c, "parse", h)
    BY <1>1, <2>1, <2>2 DEF Table!Ask, Table!Answered, Table!Idle, PhaseMap, AskedMap, AnswerMap
  <2>4. QED BY <2>3, <1>14 DEF Table!Next
<1>15. ASSUME NewFails(c) PROVE [Table!Next]_(Table!vars)
  <2>1. /\ Phase(c) = "asked" /\ Phase(c)' = "done"
        /\ Asked(c)' = Asked(c) /\ Answer(c)' = "grammar"
    BY <1>0, <1>15 DEF NewFails, TypeOK, At, CallAt, FoundAt, Phase, Asked, Answer, Goes, Begins, Says, registry, reg, Idle, Holding, Table!Idle
  <2>2. /\ Asked(c).op = "load" /\ loaded' = loaded /\ DOMAIN owner' = DOMAIN owner
    BY <1>0, <1>15 DEF NewFails, At, CallAt, Asked, Goes, registry
  <2>3. Table!LoadFails(c)
    BY <1>1, <2>1, <2>2 DEF Table!LoadFails, Table!Answered, Table!Idle, PhaseMap, AskedMap, AnswerMap
  <2>4. QED BY <2>3 DEF Table!Next
<1>16. ASSUME Store(c) PROVE [Table!Next]_(Table!vars)
  <2>1. /\ Phase(c) = "asked" /\ Phase(c)' = "done"
        /\ Asked(c)' = [Asked(c) EXCEPT !.handle = nextID] /\ Answer(c)' = "loaded"
    BY <1>0, <1>16 DEF Store, TypeOK, At, CallAt, FoundAt, Phase, Asked, Answer, Goes, Begins, Says, registry, reg, Idle, Holding, Table!Idle
  <2>2. /\ Asked(c).op = "load" /\ nextID \notin DOMAIN owner
        /\ loaded' = loaded \cup {nextID} /\ DOMAIN owner' = DOMAIN owner \cup {nextID}
    BY <1>0, <1>16 DEF Store, TypeOK, At, CallAt, Asked, Goes
  <2>3. Table!Load(c, nextID)
    BY <1>1, <2>1, <2>2 DEF Table!Load, Table!Answered, Table!Idle, PhaseMap, AskedMap, AnswerMap
  <2>4. nextID \in loaded'
    BY <2>2
  <2>5. QED BY <2>3, <2>4 DEF Table!Next
<1>17. ASSUME Delete(c) PROVE [Table!Next]_(Table!vars)
  <2>1. /\ Phase(c) = "asked" /\ Phase(c)' = "done"
        /\ Asked(c)' = Asked(c) /\ Answer(c)' = "freed"
    BY <1>0, <1>17 DEF Delete, TypeOK, At, CallAt, FoundAt, Phase, Asked, Answer, Goes, Begins, Says, registry, reg, Idle, Holding, Table!Idle
  <2>2. /\ Asked(c).op = "free" /\ loaded' = loaded \ {Asked(c).handle}
        /\ DOMAIN owner' = DOMAIN owner
    BY <1>0, <1>17 DEF Delete, At, CallAt, Asked, Goes
  <2>3. Table!Free(c)
    BY <1>1, <2>1, <2>2 DEF Table!Free, Table!Answered, Table!Idle, PhaseMap, AskedMap, AnswerMap
  <2>4. QED BY <2>3 DEF Table!Next
<1>18. ASSUME EngineAnswers(c) PROVE [Table!Next]_(Table!vars)
  <2>1. /\ Phase(c) = "running" /\ Phase(c)' = "done" /\ Asked(c)' = Asked(c)
        /\ Answer(c)' \in Table!Verdicts
    BY <1>0, <1>18 DEF EngineAnswers, TypeOK, At, CallAt, FoundAt, Phase, Asked, Answer, Goes, Begins, Says, registry, reg, Idle, Holding, Table!Verdicts
  <2>2. loaded' = loaded /\ DOMAIN owner' = DOMAIN owner
    BY <1>0, <1>18 DEF EngineAnswers, TypeOK, registry
  <2>3. Table!Answer(c)
    BY <1>1, <2>1, <2>2 DEF Table!Answer, Table!Answered, Table!Idle, PhaseMap, AskedMap, AnswerMap
  <2>4. QED BY <2>3 DEF Table!Next
<1>19. ASSUME Return(c) PROVE [Table!Next]_(Table!vars)
  <2>1. /\ Phase(c) = "done" /\ Phase(c)' = "idle"
        /\ Asked(c)' = Table!Idle /\ Answer(c)' = "none"
    BY <1>0, <1>19 DEF Return, TypeOK, At, CallAt, FoundAt, Phase, Asked, Answer, Goes, Begins, Says, registry, reg, Idle, Holding, Table!Idle
  <2>2. loaded' = loaded /\ DOMAIN owner' = DOMAIN owner
    BY <1>0, <1>19 DEF Return, TypeOK, registry
  <2>3. Table!Return(c)
    BY <1>1, <2>1, <2>2 DEF Table!Return, Table!Answered, Table!Idle, PhaseMap, AskedMap, AnswerMap
  <2>4. QED BY <2>3 DEF Table!Next
<1>20. ASSUME LockEngine(c) PROVE [Table!Next]_(Table!vars)
  <2>1. /\ Phase(c) = "found" /\ Phase(c)' = "running"
        /\ Asked(c)' = Asked(c) /\ Answer(c)' = Answer(c)
    BY <1>0, <1>20 DEF LockEngine, TypeOK, At, CallAt, FoundAt, Phase, Asked, Answer, Goes, Begins, Says, registry, reg, Idle, Holding, Table!Idle
  <2>2. /\ loaded' = loaded /\ DOMAIN owner' = DOMAIN owner
        /\ \A d \in Callers : PhaseMap[d] = "running" => AskedMap[d].handle # AskedMap[c].handle
    <3>1. loaded' = loaded /\ DOMAIN owner' = DOMAIN owner
      BY <1>0, <1>20 DEF LockEngine, TypeOK, registry
    <3>2. ASSUME NEW d \in Callers, PhaseMap[d] = "running"
          PROVE  AskedMap[d].handle # AskedMap[c].handle
      BY <1>0, <1>20, <3>2, CallersAssumption
      DEF IInv, At, OwnerAt, FoundAt, PhaseMap, AskedMap, Phase, Asked, LockEngine, Goes
    <3>3. QED BY <3>1, <3>2
  <2>3. Table!Run(c)
    BY <1>1, <2>1, <2>2 DEF Table!Run, Table!Answered, Table!Idle, PhaseMap, AskedMap, AnswerMap
  <2>4. QED BY <2>3 DEF Table!Next
<1>21. ASSUME Lookup(c) PROVE [Table!Next]_(Table!vars)
  <2>1. /\ Phase(c) = "asked" /\ Asked(c)' = Asked(c) /\ Asked(c).op = "parse"
        /\ loaded' = loaded /\ DOMAIN owner' = DOMAIN owner
    BY <1>0, <1>21 DEF Lookup, TypeOK, At, CallAt, FoundAt, Phase, Asked, Answer, Goes, Begins, Says, registry, reg, Idle, Holding
  <2>2. CASE Asked(c).handle \in loaded
    <3>1. Phase(c)' = "found" /\ Answer(c)' = Answer(c)
      BY <1>0, <1>21, <2>2 DEF Lookup, TypeOK, At, CallAt, FoundAt, Phase, Asked, Answer, Goes, Begins, Says, registry, reg, Idle, Holding
    <3>2. Table!Find(c)
      BY <1>1, <2>1, <2>2, <3>1 DEF Table!Find, PhaseMap, AskedMap, AnswerMap
    <3>3. QED BY <3>2 DEF Table!Next
  <2>3. CASE Asked(c).handle \notin loaded
    <3>1. Phase(c)' = "done" /\ Answer(c)' = "handle"
      BY <1>0, <1>21, <2>3 DEF Lookup, TypeOK, At, CallAt, FoundAt, Phase, Asked, Answer, Goes, Begins, Says, registry, reg, Idle, Holding
    <3>2. Table!Miss(c)
      BY <1>1, <2>1, <2>3, <3>1 DEF Table!Miss, Table!Answered, PhaseMap, AskedMap, AnswerMap
    <3>3. QED BY <3>2 DEF Table!Next
  <2>4. QED BY <2>2, <2>3
<1>22. QED
  BY <1>2, <1>3, <1>4, <1>5, <1>6, <1>7, <1>8, <1>9, <1>10, <1>11, <1>12, <1>13, <1>14, <1>15, <1>16, <1>17, <1>18, <1>19, <1>20, <1>21 DEF Calls, Proceeds

LEMMA InitRefines == Init => Table!Init
BY DEF Init, Idle, Phase, Asked, Answer, Table!Init, Table!Idle

\* The library is the table of parsers it promises to be, for any number of
\* threads: each call reads or changes the registry at one instant, no handle
\* is given out twice, a freed handle does not disturb the parse that found
\* it, and an engine answers one call at a time.
THEOREM LibraryIsTheTable == Spec => Linearizable
<1>1. ASSUME IInv, [Next]_vars PROVE [Table!Next]_(Table!vars)
  <2>1. CASE Next
    BY <2>1, <1>1, StepRefines DEF Next
  <2>2. CASE UNCHANGED vars
    BY <2>2 DEF vars, Table!vars, Phase, Asked, Answer
  <2>3. QED BY <1>1, <2>1, <2>2
<1>2. QED BY InitRefines, AlwaysIInv, <1>1, PTL DEF Spec, Linearizable, Table!Spec
=============================================================================
