------------------------ MODULE ArenaLifecycleProofs ------------------------
(***************************************************************************)
(* Proofs about ArenaLifecycle, for every limit, depth and number of nodes.*)
(* The invariant has the parses in flight own disjoint sets of nodes: the  *)
(* end of one then takes nothing of another's.                             *)
(***************************************************************************)
EXTENDS ArenaLifecycle, FiniteSetTheorems, TLAPS

Kinds == GuardedKinds \cup {"direct"}

\* No two parses in flight made the same node.
MadeApart ==
  \A i, j \in DOMAIN frames : i # j => frames[i].made \cap frames[j].made = {}

\* Only the innermost parse has had none run inside it.
OthersNested == \A i \in DOMAIN frames : i < Len(frames) => frames[i].nested

\* What a parse made is held until another runs inside it, guarded or not.
AloneHeld == \A i \in DOMAIN frames : ~frames[i].nested => frames[i].made \subseteq live

WithinDepth == Len(frames) <= MaxDepth

IInv ==
  /\ TypeOK /\ WithinDepth /\ ActiveCounts /\ NodesHeld /\ MadeApart
  /\ OthersNested /\ AloneHeld /\ FreshUsable /\ NeverCaptured

(***************************************************************************)
(* The sequence of parses after a start, a node and an end.                *)
(***************************************************************************)
LEMMA StartedFacts ==
  ASSUME TypeOK, NEW kind \in Kinds
  PROVE  /\ Started(kind) \in Seq(Frame)
         /\ Len(Started(kind)) = Len(frames) + 1
         /\ \A i \in DOMAIN frames :
              Started(kind)[i] = [frames[i] EXCEPT !.nested = TRUE]
         /\ Started(kind)[Len(frames) + 1] = Parse(kind)
<1> DEFINE F == [i \in DOMAIN frames |-> [frames[i] EXCEPT !.nested = TRUE]]
<1>1. F \in Seq(Frame) /\ Len(F) = Len(frames)
  <2>1. DOMAIN frames = 1..Len(frames) /\ Len(frames) \in Nat
    BY DEF TypeOK
  <2>2. ASSUME NEW i \in DOMAIN frames PROVE F[i] \in Frame
    <3>1. frames[i] \in Frame
      BY <2>1 DEF TypeOK
    <3>2. F[i] = [frames[i] EXCEPT !.nested = TRUE]
      OBVIOUS
    <3>3. QED BY <3>1, <3>2 DEF Frame
  <2>3. QED BY <2>1, <2>2
<1>2. Parse(kind) \in Frame
  BY DEF TypeOK, Parse, Frame, Kinds
<1>3. Started(kind) = Append(F, Parse(kind))
  BY DEF Started
<1>4. QED BY <1>1, <1>2, <1>3

LEMMA EndedFacts ==
  ASSUME TypeOK, frames # <<>>, NEW F, F = SubSeq(frames, 1, Len(frames) - 1)
  PROVE  /\ F \in Seq(Frame) /\ Len(F) = Len(frames) - 1
         /\ DOMAIN F = DOMAIN frames \ {Len(frames)}
         /\ \A i \in DOMAIN F : F[i] = frames[i]
<1>1. Len(frames) \in Nat /\ Len(frames) # 0 /\ DOMAIN frames = 1..Len(frames)
  BY DEF TypeOK
<1>2. F \in Seq(Frame) /\ Len(F) = Len(frames) - 1
  BY <1>1 DEF TypeOK
<1>3. DOMAIN F = 1..Len(F)
  BY <1>2
<1>4. QED BY <1>1, <1>2, <1>3 DEF TypeOK

LEMMA TopFacts ==
  ASSUME TypeOK, frames # <<>>
  PROVE  /\ Len(frames) \in DOMAIN frames /\ Top \in Frame /\ Top.made \subseteq 1..next_id
         /\ DOMAIN frames = 1..Len(frames) /\ Len(frames) \in Nat
  BY DEF TypeOK, Top

LEMMA GuardedFinite ==
  ASSUME TypeOK
  PROVE  IsFiniteSet(GuardedAt) /\ Cardinality(GuardedAt) \in Nat
<1>1. IsFiniteSet(DOMAIN frames)
  BY FS_Interval DEF TypeOK
<1>2. GuardedAt \in SUBSET DOMAIN frames
  BY DEF GuardedAt
<1>3. QED BY <1>1, <1>2, FS_Subset, FS_CardinalityType

(***************************************************************************)
(* What each kind of step does to the parses in flight.                    *)
(***************************************************************************)
LEMMA EnterStep ==
  ASSUME TypeOK, NEW kind \in Kinds, frames' = Started(kind)
  PROVE  /\ frames' \in Seq(Frame) /\ Len(frames') = Len(frames) + 1
         /\ DOMAIN frames' = DOMAIN frames \cup {Len(frames) + 1}
         /\ Len(frames) + 1 \notin DOMAIN frames
         /\ \A i \in DOMAIN frames : /\ frames'[i].made = frames[i].made
                                     /\ frames'[i].kind = frames[i].kind
                                     /\ frames'[i].nested
         /\ frames'[Len(frames) + 1].made = {} /\ frames'[Len(frames) + 1].kind = kind
         /\ GuardedAt' = IF kind \in GuardedKinds THEN GuardedAt \cup {Len(frames) + 1}
                                                 ELSE GuardedAt
<1>1. Len(frames) \in Nat /\ DOMAIN frames = 1..Len(frames)
  BY DEF TypeOK
<1>2. frames' \in Seq(Frame) /\ Len(frames') = Len(frames) + 1
  BY StartedFacts
<1>3. DOMAIN frames' = DOMAIN frames \cup {Len(frames) + 1} /\ Len(frames) + 1 \notin DOMAIN frames
  BY <1>1, <1>2
<1>4. ASSUME NEW i \in DOMAIN frames
      PROVE  /\ frames'[i].made = frames[i].made
             /\ frames'[i].kind = frames[i].kind
             /\ frames'[i].nested
  <2>1. frames'[i] = [frames[i] EXCEPT !.nested = TRUE]
    BY StartedFacts
  <2>2. frames[i] \in Frame
    BY <1>1 DEF TypeOK
  <2>3. QED BY <2>1, <2>2 DEF Frame
<1>5. frames'[Len(frames) + 1].made = {} /\ frames'[Len(frames) + 1].kind = kind
  <2>1. frames'[Len(frames) + 1] = Parse(kind)
    BY StartedFacts
  <2>2. QED BY <2>1 DEF Parse
<1>6. GuardedAt' = IF kind \in GuardedKinds THEN GuardedAt \cup {Len(frames) + 1}
                                            ELSE GuardedAt
  <2>1. GuardedAt' = {i \in DOMAIN frames' : frames'[i].kind \in GuardedKinds}
    BY DEF GuardedAt, Guarded
  <2>2. GuardedAt = {i \in DOMAIN frames : frames[i].kind \in GuardedKinds}
    BY DEF GuardedAt, Guarded
  <2>3. QED BY <2>1, <2>2, <1>3, <1>4, <1>5
<1>7. QED BY <1>2, <1>3, <1>4, <1>5, <1>6

LEMMA MakeStep ==
  ASSUME TypeOK, frames # <<>>, NEW root \in Nat, NEW size \in Nat, NEW over \in BOOLEAN,
         Making(root, size, over)
  PROVE  /\ frames' \in Seq(Frame) /\ Len(frames') = Len(frames)
         /\ DOMAIN frames' = DOMAIN frames
         /\ \A i \in DOMAIN frames :
              /\ frames'[i].made = frames[i].made \cup (IF i = Len(frames) THEN {next_id + 1} ELSE {})
              /\ frames'[i].kind = frames[i].kind
              /\ frames'[i].nested = frames[i].nested
         /\ GuardedAt' = GuardedAt
<1> DEFINE top == Grown(root, size, over)
<1>1. Len(frames) \in DOMAIN frames /\ Top \in Frame /\ DOMAIN frames = 1..Len(frames)
  BY TopFacts
<1>2. /\ top \in Frame /\ top.made = Top.made \cup {next_id + 1}
      /\ top.kind = Top.kind /\ top.nested = Top.nested
  <2>1. next_id + 1 \in Nat
    BY DEF TypeOK
  <2>2. (Top.outgrew \/ over) \in BOOLEAN
    BY <1>1 DEF Frame
  <2>3. QED BY <1>1, <2>1, <2>2 DEF Frame, Grown
<1>3. frames' = [frames EXCEPT ![Len(frames)] = top]
  BY DEF Making
<1>4. frames' \in Seq(Frame) /\ Len(frames') = Len(frames) /\ DOMAIN frames' = DOMAIN frames
  BY <1>1, <1>2, <1>3 DEF TypeOK
<1>5. \A i \in DOMAIN frames : frames'[i] = IF i = Len(frames) THEN top ELSE frames[i]
  BY <1>1, <1>3
<1>6. ASSUME NEW i \in DOMAIN frames
      PROVE /\ frames'[i].made = frames[i].made \cup (IF i = Len(frames) THEN {next_id + 1} ELSE {})
            /\ frames'[i].kind = frames[i].kind
            /\ frames'[i].nested = frames[i].nested
  BY <1>2, <1>5 DEF Top
<1>7. GuardedAt' = GuardedAt
  BY <1>4, <1>6 DEF GuardedAt, Guarded
<1>8. QED BY <1>4, <1>6, <1>7

LEMMA UseStep ==
  ASSUME TypeOK, Use
  PROVE  /\ frames' \in Seq(Frame) /\ Len(frames') = Len(frames)
         /\ DOMAIN frames' = DOMAIN frames
         /\ \A i \in DOMAIN frames : /\ frames'[i].made = frames[i].made
                                     /\ frames'[i].kind = frames[i].kind
                                     /\ frames'[i].nested = frames[i].nested
         /\ GuardedAt' = GuardedAt
<1> DEFINE top == [Top EXCEPT !.phase = "use"]
<1>1. Len(frames) \in DOMAIN frames /\ Top \in Frame /\ DOMAIN frames = 1..Len(frames)
  BY TopFacts DEF Use, Parsing
<1>2. top \in Frame /\ top.made = Top.made /\ top.kind = Top.kind /\ top.nested = Top.nested
  BY <1>1 DEF Frame
<1>3. frames' = [frames EXCEPT ![Len(frames)] = top]
  BY DEF Use, Top
<1>4. frames' \in Seq(Frame) /\ Len(frames') = Len(frames) /\ DOMAIN frames' = DOMAIN frames
  BY <1>1, <1>2, <1>3 DEF TypeOK
<1>5. \A i \in DOMAIN frames : frames'[i] = IF i = Len(frames) THEN top ELSE frames[i]
  BY <1>1, <1>3
<1>6. ASSUME NEW i \in DOMAIN frames
      PROVE /\ frames'[i].made = frames[i].made
            /\ frames'[i].kind = frames[i].kind
            /\ frames'[i].nested = frames[i].nested
  BY <1>2, <1>5 DEF Top
<1>7. GuardedAt' = GuardedAt
  BY <1>4, <1>6 DEF GuardedAt, Guarded
<1>8. QED BY <1>4, <1>6, <1>7

\* The end of a guarded parse gives back its guard, and the arena is emptied
\* only if no other guarded one is in flight.
LEMMA EndStep ==
  ASSUME TypeOK, ActiveCounts, frames # <<>>, Ending
  PROVE  /\ frames' \in Seq(Frame) /\ Len(frames') = Len(frames) - 1
         /\ DOMAIN frames' = DOMAIN frames \ {Len(frames)}
         /\ \A i \in DOMAIN frames' : frames'[i] = frames[i] /\ i < Len(frames)
         /\ GuardedAt' = GuardedAt \ {Len(frames)}
         /\ active' \in Nat /\ active' = Cardinality(GuardedAt)'
         /\ next_id' = next_id /\ over_limit' \in BOOLEAN
         /\ live' \subseteq live /\ (GuardedAt' # {} \/ ~Guarded(Top) => live' = live)
<1>1. Len(frames) \in DOMAIN frames /\ DOMAIN frames = 1..Len(frames) /\ Len(frames) \in Nat
  BY TopFacts
<1>2. /\ frames' \in Seq(Frame) /\ Len(frames') = Len(frames) - 1
      /\ DOMAIN frames' = DOMAIN frames \ {Len(frames)}
      /\ \A i \in DOMAIN frames' : frames'[i] = frames[i]
  BY EndedFacts DEF Ending
<1>3. \A i \in DOMAIN frames' : i < Len(frames)
  BY <1>1, <1>2
<1>4. GuardedAt' = GuardedAt \ {Len(frames)}
  BY <1>2 DEF GuardedAt, Guarded
<1>5. Len(frames) \in GuardedAt <=> Guarded(Top)
  BY <1>1 DEF GuardedAt, Top
<1>6. IsFiniteSet(GuardedAt) /\ active \in Nat /\ active = Cardinality(GuardedAt)
  BY GuardedFinite DEF ActiveCounts, TypeOK
<1>7. Cardinality(GuardedAt') = (IF Guarded(Top) THEN active - 1 ELSE active)
  BY <1>4, <1>5, <1>6, FS_RemoveElement
<1>8. Guarded(Top) => active # 0
  BY <1>5, <1>6, FS_EmptySet
<1>9. active' = (IF Guarded(Top) THEN active - 1 ELSE active)
  BY <1>8 DEF Ending
<1>10. GuardedAt' # {} /\ Guarded(Top) => active' # 0
  <2>1. IsFiniteSet(GuardedAt')
    BY <1>4, <1>6, FS_RemoveElement
  <2>2. QED BY <2>1, <1>7, <1>9, FS_EmptySet
<1>11. /\ next_id' = next_id /\ over_limit' \in BOOLEAN
       /\ live' \subseteq live /\ (GuardedAt' # {} \/ ~Guarded(Top) => live' = live)
  <2>1. CASE Guarded(Top)
    <3>1. Release(active')
      BY <2>1 DEF Ending
    <3>2. QED BY <2>1, <3>1, <1>10 DEF Release, TypeOK
  <2>2. CASE ~Guarded(Top)
    BY <2>2 DEF Ending, TypeOK
  <2>3. QED BY <2>1, <2>2
<1>12. QED BY <1>2, <1>3, <1>4, <1>6, <1>7, <1>8, <1>9, <1>11

(***************************************************************************)
(* The invariant, one lemma for each kind of step.                         *)
(***************************************************************************)
LEMMA IInvInit == ASSUME Init PROVE IInv
<1>1. GuardedAt = {} /\ DOMAIN frames = {} /\ frames \in Seq(Frame)
  BY DEF Init, GuardedAt
<1>2. TypeOK
  BY <1>1 DEF Init, TypeOK, GuardedKinds
<1>3. ActiveCounts
  BY <1>1, FS_EmptySet DEF Init, ActiveCounts
<1>4. WithinDepth
  BY LifecycleAssumption DEF Init, WithinDepth
<1>5. QED BY <1>1, <1>2, <1>3, <1>4
        DEF IInv, NodesHeld, MadeApart, OthersNested, AloneHeld, FreshUsable, NeverCaptured, Init

\* A parse starts: with nodes of its own, none; and the arena is emptied only
\* when no guarded one is in flight.
LEMMA IInvEnter ==
  ASSUME IInv, NEW kind \in Kinds, Len(frames) < MaxDepth, frames' = Started(kind), fresh' = {},
         escaped' = escaped, last' = last, next_id' = next_id, over_limit' \in BOOLEAN,
         active' = (IF kind \in GuardedKinds THEN active + 1 ELSE active),
         live' = live \/ (live' = {} /\ active = 0 /\ kind \notin GuardedKinds)
  PROVE  IInv'
<1> USE DEF IInv
<1>1. /\ frames' \in Seq(Frame) /\ Len(frames') = Len(frames) + 1
      /\ DOMAIN frames' = DOMAIN frames \cup {Len(frames) + 1}
      /\ Len(frames) + 1 \notin DOMAIN frames
      /\ \A i \in DOMAIN frames : /\ frames'[i].made = frames[i].made
                                  /\ frames'[i].kind = frames[i].kind
                                  /\ frames'[i].nested
      /\ frames'[Len(frames) + 1].made = {} /\ frames'[Len(frames) + 1].kind = kind
      /\ GuardedAt' = IF kind \in GuardedKinds THEN GuardedAt \cup {Len(frames) + 1}
                                              ELSE GuardedAt
  BY EnterStep
<1>2. IsFiniteSet(GuardedAt) /\ GuardedAt \subseteq DOMAIN frames
  BY GuardedFinite DEF GuardedAt
<1>3. active = 0 => GuardedAt = {}
  BY <1>2, FS_EmptySet DEF ActiveCounts
<1>4. TypeOK'
  <2>1. \A i \in DOMAIN frames' : frames'[i].made \subseteq 1..next_id'
    BY <1>1 DEF TypeOK
  <2>2. active' \in Nat
    <3>1. active \in Nat
      BY DEF TypeOK
    <3>2. active' = active + 1 \/ active' = active
      OBVIOUS
    <3>3. QED BY <3>1, <3>2
  <2>4. live' \subseteq 1..next_id'
    BY DEF TypeOK
  <2>3. QED BY <1>1, <2>1, <2>2, <2>4 DEF TypeOK
<1>5. ActiveCounts'
  <2>1. CASE kind \in GuardedKinds
    BY <1>1, <1>2, <2>1, FS_AddElement DEF ActiveCounts
  <2>2. CASE kind \notin GuardedKinds
    BY <1>1, <2>2 DEF ActiveCounts
  <2>3. QED BY <2>1, <2>2
<1>6. NodesHeld'
  BY <1>1, <1>2, <1>3 DEF NodesHeld
<1>7. MadeApart' /\ NeverCaptured'
  BY <1>1 DEF MadeApart, NeverCaptured
<1>8. OthersNested' /\ AloneHeld' /\ FreshUsable'
  BY <1>1 DEF OthersNested, AloneHeld, FreshUsable
<1>9. WithinDepth'
  BY <1>1, LifecycleAssumption DEF WithinDepth, TypeOK
<1>10. QED BY <1>4, <1>5, <1>6, <1>7, <1>8, <1>9

\* The innermost parse makes a node, with an identity nothing else has.
LEMMA IInvMake ==
  ASSUME IInv, frames # <<>>, NEW root \in Nat, NEW size \in Nat, NEW over \in BOOLEAN,
         Making(root, size, over)
  PROVE  IInv'
<1> USE DEF IInv
<1>1. /\ frames' \in Seq(Frame) /\ Len(frames') = Len(frames)
      /\ DOMAIN frames' = DOMAIN frames
      /\ \A i \in DOMAIN frames :
           /\ frames'[i].made = frames[i].made \cup (IF i = Len(frames) THEN {next_id + 1} ELSE {})
           /\ frames'[i].kind = frames[i].kind
           /\ frames'[i].nested = frames[i].nested
      /\ GuardedAt' = GuardedAt
  BY MakeStep
<1>2. /\ next_id' = next_id + 1 /\ live' = live \cup {next_id + 1}
      /\ active' = active /\ escaped' = escaped /\ fresh' = fresh /\ last' = last
      /\ over_limit' \in BOOLEAN
  BY DEF Making, TypeOK
<1>3. \A S : S \subseteq 1..next_id => S \subseteq 1..next_id' /\ next_id + 1 \notin S
  BY <1>2 DEF TypeOK
<1>4. next_id + 1 \in 1..next_id' /\ next_id' \in Nat
  BY <1>2 DEF TypeOK
<1>5. TypeOK'
  <2>1. \A i \in DOMAIN frames' : frames'[i].made \subseteq 1..next_id'
    <3>1. SUFFICES ASSUME NEW i \in DOMAIN frames PROVE frames'[i].made \subseteq 1..next_id'
      BY <1>1
    <3>2. frames[i].made \subseteq 1..next_id'
      BY <1>3 DEF TypeOK
    <3>3. frames'[i].made \subseteq frames[i].made \cup {next_id + 1}
      BY <1>1
    <3>4. QED BY <3>2, <3>3, <1>4
  <2>2. live' \subseteq 1..next_id' /\ escaped' \subseteq 1..next_id' /\ fresh' \subseteq 1..next_id'
    BY <1>2, <1>3, <1>4 DEF TypeOK
  <2>3. QED BY <1>1, <1>2, <1>4, <2>1, <2>2 DEF TypeOK
<1>6. ActiveCounts' /\ OthersNested' /\ WithinDepth'
  BY <1>1, <1>2 DEF ActiveCounts, OthersNested, WithinDepth
<1>7. NodesHeld' /\ AloneHeld' /\ FreshUsable'
  <2>1. GuardedAt \subseteq DOMAIN frames
    BY DEF GuardedAt
  <2>2. QED BY <1>1, <1>2, <2>1 DEF NodesHeld, AloneHeld, FreshUsable
<1>8. MadeApart'
  <2>1. \A i \in DOMAIN frames : next_id + 1 \notin frames[i].made
    BY <1>3 DEF TypeOK
  <2>2. QED BY <1>1, <2>1 DEF MadeApart
<1>9. NeverCaptured'
  <2>1. next_id + 1 \notin escaped
    BY <1>3 DEF TypeOK
  <2>2. QED BY <1>1, <1>2, <2>1 DEF NeverCaptured
<1>10. QED BY <1>5, <1>6, <1>7, <1>8, <1>9

LEMMA IInvUse == ASSUME IInv, Use PROVE IInv'
<1> USE DEF IInv
<1>1. /\ frames' \in Seq(Frame) /\ Len(frames') = Len(frames)
      /\ DOMAIN frames' = DOMAIN frames
      /\ \A i \in DOMAIN frames : /\ frames'[i].made = frames[i].made
                                  /\ frames'[i].kind = frames[i].kind
                                  /\ frames'[i].nested = frames[i].nested
      /\ GuardedAt' = GuardedAt /\ GuardedAt \subseteq DOMAIN frames
  BY UseStep DEF GuardedAt
<1>2. UNCHANGED <<live, next_id, active, over_limit, escaped, fresh, last>>
  BY DEF Use
<1>3. TypeOK'
  BY <1>1, <1>2 DEF TypeOK
<1>4. /\ ActiveCounts' /\ OthersNested' /\ NodesHeld' /\ AloneHeld' /\ FreshUsable'
      /\ WithinDepth'
  BY <1>1, <1>2
     DEF ActiveCounts, OthersNested, NodesHeld, AloneHeld, FreshUsable, WithinDepth
<1>5. MadeApart' /\ NeverCaptured'
  BY <1>1, <1>2 DEF MadeApart, NeverCaptured
<1>6. QED BY <1>3, <1>4, <1>5

\* A parse ends: what is left in flight has disjoint nodes, all held.
LEMMA IInvEnd ==
  ASSUME IInv, frames # <<>>, Ending,
         escaped' \subseteq escaped \cup Top.made,
         fresh' = {} \/ (fresh' = Top.made /\ ~Top.nested /\ ~Guarded(Top))
  PROVE  IInv'
<1> USE DEF IInv
<1>1. /\ frames' \in Seq(Frame) /\ Len(frames') = Len(frames) - 1
      /\ DOMAIN frames' = DOMAIN frames \ {Len(frames)}
      /\ \A i \in DOMAIN frames' : frames'[i] = frames[i] /\ i < Len(frames)
      /\ GuardedAt' = GuardedAt \ {Len(frames)}
      /\ active' \in Nat /\ active' = Cardinality(GuardedAt)'
      /\ next_id' = next_id /\ over_limit' \in BOOLEAN
      /\ live' \subseteq live /\ (GuardedAt' # {} \/ ~Guarded(Top) => live' = live)
  BY EndStep
<1>2. /\ Len(frames) \in DOMAIN frames /\ Top \in Frame /\ Top = frames[Len(frames)]
      /\ Top.made \subseteq 1..next_id
  BY TopFacts DEF Top
<1>3. GuardedAt' \subseteq GuardedAt /\ GuardedAt' \subseteq DOMAIN frames'
  BY <1>1 DEF GuardedAt
<1>4. TypeOK'
  <2>1. last' \in [kind : GuardedKinds \cup {"direct"}, from : Nat]
    BY <1>2 DEF Ending, Frame
  <2>2. /\ live' \subseteq 1..next_id' /\ escaped' \subseteq 1..next_id'
        /\ fresh' \subseteq 1..next_id' /\ next_id' \in Nat
    BY <1>1, <1>2 DEF TypeOK
  <2>3. \A i \in DOMAIN frames' : frames'[i].made \subseteq 1..next_id'
    BY <1>1 DEF TypeOK
  <2>4. QED BY <1>1, <2>1, <2>2, <2>3 DEF TypeOK
<1>5. ActiveCounts'
  BY <1>1 DEF ActiveCounts
<1>6. NodesHeld'
  <2>1. SUFFICES ASSUME NEW i \in GuardedAt' PROVE frames'[i].made \subseteq live'
    BY DEF NodesHeld
  <2>2. live' = live
    BY <1>1, <2>1
  <2>3. QED BY <1>1, <1>3, <2>1, <2>2 DEF NodesHeld
<1>7. OthersNested' /\ AloneHeld'
  BY <1>1 DEF OthersNested, AloneHeld
<1>8. MadeApart'
  BY <1>1 DEF MadeApart
<1>9. FreshUsable'
  BY <1>1, <1>2 DEF FreshUsable, AloneHeld
<1>10. NeverCaptured'
  <2>1. \A i \in DOMAIN frames' : frames[i].made \cap Top.made = {}
    BY <1>1, <1>2 DEF MadeApart
  <2>2. QED BY <1>1, <2>1 DEF NeverCaptured
<1>11. WithinDepth'
  BY <1>1, <1>2, LifecycleAssumption DEF WithinDepth, TypeOK
<1>12. QED BY <1>4, <1>5, <1>6, <1>7, <1>8, <1>9, <1>10, <1>11

LEMMA IInvNext == ASSUME IInv, [Next]_vars PROVE IInv'
<1>1. ASSUME NEW kind \in GuardedKinds, EnterGuarded(kind) PROVE IInv'
  BY <1>1, IInvEnter DEF EnterGuarded, MayStart, Kinds
<1>2. CASE EnterDirect
  <2>1. "direct" \in Kinds /\ "direct" \notin GuardedKinds
    BY DEF Kinds, GuardedKinds
  <2>2. over_limit \in BOOLEAN
    BY DEF IInv, TypeOK
  <2>3. QED BY <1>2, <2>1, <2>2, IInvEnter DEF EnterDirect, MayStart, Release
<1>3. next_id + 1 \in Nat
  BY DEF IInv, TypeOK
<1>4. CASE StartExpr
  BY <1>3, <1>4, IInvMake DEF StartExpr, Parsing
<1>5. CASE GrowExpr
  <2>1. Top \in Frame /\ frames # <<>>
    BY <1>5, TopFacts DEF GrowExpr, Parsing, IInv
  <2>2. Top.root \in Nat /\ Top.size + 1 \in Nat
    BY <2>1 DEF Frame
  <2>3. (Top.size + 1 > NodeLimit) \in BOOLEAN
    OBVIOUS
  <2>4. Making(Top.root, Top.size + 1, Top.size + 1 > NodeLimit)
    BY <1>5 DEF GrowExpr
  <2>5. QED BY <2>1, <2>2, <2>3, <2>4, IInvMake
<1>6. CASE GrowOrphan
  <2>1. (2 > NodeLimit) \in BOOLEAN /\ 2 \in Nat
    OBVIOUS
  <2>2. frames # <<>> /\ Making(next_id + 1, 2, 2 > NodeLimit)
    BY <1>6 DEF GrowOrphan, Parsing
  <2>3. QED BY <1>3, <2>1, <2>2, IInvMake
<1>7. CASE Use
  BY <1>7, IInvUse
<1>8. CASE Return
  <2>1. frames # <<>> /\ ~Guarded(Top) /\ Ending /\ escaped' = escaped \cup Top.made
    BY <1>8 DEF Return, Parsing
  <2>2. fresh' = {} \/ (fresh' = Top.made /\ ~Top.nested)
    BY <1>8 DEF Return
  <2>3. QED BY <2>1, <2>2, IInvEnd
<1>9. CASE Finish
  BY <1>9, IInvEnd DEF Finish
<1>10. CASE Cancel
  BY <1>10, IInvEnd DEF Cancel, Parsing
<1>11. CASE Fail
  BY <1>11, IInvEnd DEF Fail
<1>12. CASE UNCHANGED vars
  BY <1>12 DEF vars, IInv, TypeOK, WithinDepth, ActiveCounts, GuardedAt, NodesHeld, MadeApart, OthersNested,
               AloneHeld, FreshUsable, NeverCaptured
<1>13. QED BY <1>1, <1>2, <1>4, <1>5, <1>6, <1>7, <1>8, <1>9, <1>10, <1>11, <1>12 DEF Next

(***************************************************************************)
(* The theorems.                                                           *)
(***************************************************************************)

\* Every state of every run of parses is of the right types, and in it the
\* parses in flight own disjoint nodes.
THEOREM AlwaysIInv == Spec => []IInv
<1>1. Init => IInv
  BY IInvInit
<1>2. IInv /\ [Next]_vars => IInv'
  BY IInvNext
<1>3. QED BY <1>1, <1>2, PTL DEF Spec

\* The identities are handed out in order, and every one that is kept, by
\* the arena, a parse or a caller, was handed out.
THEOREM AlwaysTypeOK == Spec => []TypeOK
<1>1. IInv => TypeOK
  BY DEF IInv
<1>2. QED BY <1>1, AlwaysIInv, PTL

\* The arena's count of guards is the number of guarded parses in flight,
\* whatever way each of them ends (ArenaGuard).
THEOREM AlwaysActiveCounts == Spec => []ActiveCounts
<1>1. IInv => ActiveCounts
  BY DEF IInv
<1>2. QED BY <1>1, AlwaysIInv, PTL

\* What a direct parse returned stays readable until the next parse.
THEOREM AlwaysFreshUsable == Spec => []FreshUsable
<1>1. IInv => FreshUsable
  BY DEF IInv
<1>2. QED BY <1>1, AlwaysIInv, PTL

\* A handle kept from a parse that is over names no node of a later one.
THEOREM AlwaysNeverCaptured == Spec => []NeverCaptured
<1>1. IInv => NeverCaptured
  BY DEF IInv
<1>2. QED BY <1>1, AlwaysIInv, PTL

(***************************************************************************)
(* What a parse is left with by the ones before it: nothing.  The outermost*)
(* parse, if it is direct, found no guard held and emptied the arena, so   *)
(* all that is in it since was made in that parse; if it is guarded, its   *)
(* end gives back the last guard and empties it.                           *)
(***************************************************************************)
FromBefore  == \A i \in DOMAIN frames : frames[i].from <= next_id
BottomHolds ==
  frames # <<>> /\ ~Guarded(frames[1]) => live \subseteq frames[1].from + 1 .. next_id

Clean == FromBefore /\ BottomHolds /\ NothingLeaks /\ OwnLimitAlone

\* No guard is held when no parse is in flight.
LEMMA IdleUnheld == ASSUME IInv, frames = <<>> PROVE active = 0
<1>1. GuardedAt = {}
  BY DEF GuardedAt
<1>2. QED BY <1>1, FS_EmptySet DEF IInv, ActiveCounts

LEMMA CleanInit == ASSUME Init PROVE Clean
<1>1. frames = <<>> /\ DOMAIN frames = {} /\ Len(frames) = 0 /\ live = {}
  BY DEF Init
<1>2. QED BY <1>1 DEF Clean, FromBefore, BottomHolds, NothingLeaks, OwnLimitAlone

\* A parse starts: one that starts alone starts with its own flag down, and
\* a direct one with nothing in the arena.
LEMMA CleanEnter ==
  ASSUME IInv, Clean, NEW kind \in Kinds, frames' = Started(kind), next_id' = next_id,
         live' \subseteq live, frames = <<>> => ~over_limit',
         frames = <<>> /\ kind \notin GuardedKinds => live' = {}
  PROVE  Clean'
<1>1. TypeOK /\ Len(frames) \in Nat /\ DOMAIN frames = 1..Len(frames) /\ next_id \in Nat
  BY DEF IInv, TypeOK
<1>2. /\ Len(frames') = Len(frames) + 1 /\ DOMAIN frames' = DOMAIN frames \cup {Len(frames) + 1}
      /\ Len(frames) + 1 \notin DOMAIN frames /\ frames' \in Seq(Frame)
  BY <1>1, EnterStep
<1>3. /\ frames'[Len(frames) + 1].from = next_id /\ frames'[Len(frames) + 1].kind = kind
      /\ frames'[Len(frames) + 1].outgrew = FALSE
  <2>1. frames'[Len(frames) + 1] = Parse(kind)
    BY <1>1, StartedFacts
  <2>2. QED BY <2>1 DEF Parse
<1>4. ASSUME NEW i \in DOMAIN frames
      PROVE  frames'[i].from = frames[i].from /\ frames'[i].kind = frames[i].kind
  <2>1. frames'[i] = [frames[i] EXCEPT !.nested = TRUE]
    BY <1>1, StartedFacts
  <2>2. frames[i] \in Frame
    BY <1>1 DEF TypeOK
  <2>3. QED BY <2>1, <2>2 DEF Frame
<1>5. FromBefore'
  BY <1>1, <1>2, <1>3, <1>4 DEF FromBefore, Clean
<1>6. BottomHolds'
  <2>1. CASE frames = <<>>
    <3>1. Len(frames) = 0
      BY <2>1
    <3>2. frames'[1].kind = kind
      BY <1>3, <3>1
    <3>3. QED BY <2>1, <3>2 DEF BottomHolds, Guarded
  <2>2. CASE frames # <<>>
    <3>1. 1 \in DOMAIN frames
      BY <1>1, <2>2 DEF TypeOK
    <3>2. QED BY <1>4, <2>2, <3>1 DEF BottomHolds, Guarded, Clean
  <2>3. QED BY <2>1, <2>2
<1>7. frames' # <<>>
  BY <1>1, <1>2
<1>8. NothingLeaks'
  BY <1>7 DEF NothingLeaks
<1>9. OwnLimitAlone'
  <2>1. SUFFICES ASSUME Len(frames') = 1 PROVE over_limit' = Top'.outgrew
    BY DEF OwnLimitAlone
  <2>2. Len(frames) = 0
    BY <1>1, <1>2, <2>1
  <2>3. frames = <<>>
    BY <1>1, <2>2 DEF TypeOK
  <2>4. Top'.outgrew = FALSE
    BY <1>3, <2>1, <2>2 DEF Top
  <2>5. over_limit' = FALSE
    BY <2>3
  <2>6. QED BY <2>4, <2>5
<1>10. QED BY <1>5, <1>6, <1>8, <1>9 DEF Clean

\* The innermost parse makes a node, or is done with its document.
LEMMA CleanWork ==
  ASSUME IInv, Clean, frames # <<>>, NEW top,
         frames' = [frames EXCEPT ![Len(frames)] = top],
         top.from = Top.from, top.kind = Top.kind, top.nested = Top.nested,
         next_id' \in Nat, next_id <= next_id', live' \subseteq live \cup next_id + 1 .. next_id',
         over_limit = Top.outgrew => over_limit' = top.outgrew
  PROVE  Clean'
<1>1. /\ TypeOK /\ Len(frames) \in DOMAIN frames /\ Top = frames[Len(frames)] /\ Len(frames) \in Nat
      /\ DOMAIN frames = 1..Len(frames) /\ next_id \in Nat
  BY TopFacts DEF IInv, TypeOK, Top
<1>2. DOMAIN frames' = DOMAIN frames /\ Len(frames') = Len(frames)
  BY <1>1 DEF TypeOK
<1>3. \A i \in DOMAIN frames : /\ frames'[i].from = frames[i].from
                               /\ frames'[i].kind = frames[i].kind
  BY <1>1
<1>4. ASSUME NEW i \in DOMAIN frames PROVE frames[i].from \in Nat
  <2>1. frames[i] \in Frame
    BY <1>1 DEF TypeOK
  <2>2. QED BY <2>1 DEF Frame
<1>5. FromBefore'
  BY <1>1, <1>2, <1>3, <1>4 DEF FromBefore, Clean
<1>6. 1 \in DOMAIN frames /\ frames' # <<>>
  BY <1>1, <1>2
<1>7. BottomHolds'
  <2>1. SUFFICES ASSUME ~Guarded(frames[1]), NEW x \in live' PROVE x \in frames[1].from + 1 .. next_id'
    BY <1>3, <1>6 DEF BottomHolds, Guarded
  <2>2. live \subseteq frames[1].from + 1 .. next_id /\ frames[1].from <= next_id
    BY <1>6, <2>1 DEF BottomHolds, FromBefore, Clean
  <2>3. QED BY <1>1, <1>4, <1>6, <2>1, <2>2
<1>8. NothingLeaks'
  BY <1>6 DEF NothingLeaks
<1>9. OwnLimitAlone'
  <2>1. Top' = top
    BY <1>1, <1>2 DEF Top
  <2>2. QED BY <1>2, <2>1 DEF OwnLimitAlone, Clean
<1>10. QED BY <1>5, <1>7, <1>8, <1>9 DEF Clean

\* A parse ends: the last one in flight takes all there is with it, if it is
\* guarded, and leaves what was made in it, if it is not.
LEMMA CleanEnd == ASSUME IInv, Clean, frames # <<>>, Ending PROVE Clean'
<1>1. /\ TypeOK /\ Len(frames) \in DOMAIN frames /\ Top = frames[Len(frames)]
      /\ DOMAIN frames = 1..Len(frames) /\ Len(frames) \in Nat
  BY TopFacts DEF IInv, Top
<1>2. /\ Len(frames') = Len(frames) - 1 /\ DOMAIN frames' = DOMAIN frames \ {Len(frames)}
      /\ \A i \in DOMAIN frames' : frames'[i] = frames[i] /\ i < Len(frames)
      /\ frames' \in Seq(Frame)
      /\ active' = Cardinality(GuardedAt)' /\ next_id' = next_id
      /\ live' \subseteq live
  BY EndStep DEF IInv
<1>3. FromBefore'
  BY <1>2 DEF FromBefore, Clean
<1>4. frames' # <<>> => 1 \in DOMAIN frames'
  BY <1>2
<1>5. BottomHolds'
  BY <1>2, <1>4 DEF BottomHolds, Clean
<1>6. NothingLeaks'
  <2>1. SUFFICES ASSUME frames' = <<>>, live' # {}
                 PROVE  last'.kind = "direct" /\ live' \subseteq last'.from + 1 .. next_id'
    BY DEF NothingLeaks
  <2>2. Len(frames) = 1 /\ Top = frames[1]
    BY <1>1, <1>2, <2>1
  <2>3. last' = [kind |-> frames[1].kind, from |-> frames[1].from]
    BY <2>2 DEF Ending
  <2>4. CASE Guarded(Top)
    <3>1. active' = 0
      <4>1. GuardedAt' = {}
        BY <2>1 DEF GuardedAt
      <4>2. QED BY <1>2, <4>1, FS_EmptySet
    <3>2. Release(active')
      BY <2>4 DEF Ending
    <3>3. live' = {}
      BY <3>1, <3>2 DEF Release
    <3>4. QED BY <2>1, <3>3
  <2>5. CASE ~Guarded(Top)
    <3>1. Top.kind \in GuardedKinds \cup {"direct"}
      BY <1>1, TopFacts DEF Frame
    <3>2. frames[1].kind = "direct"
      BY <2>2, <2>5, <3>1 DEF Guarded
    <3>3. live \subseteq frames[1].from + 1 .. next_id
      BY <2>2, <2>5 DEF BottomHolds, Clean
    <3>4. QED BY <1>2, <2>3, <3>2, <3>3
  <2>6. QED BY <2>4, <2>5
<1>7. OwnLimitAlone'
  <2>1. SUFFICES ASSUME Len(frames') = 1 PROVE Top'.nested
    BY DEF OwnLimitAlone
  <2>2. 1 \in DOMAIN frames' /\ frames'[1] = frames[1] /\ 1 < Len(frames) /\ 1 \in DOMAIN frames
    BY <1>2, <2>1
  <2>3. frames[1].nested
    BY <2>2 DEF IInv, OthersNested
  <2>4. QED BY <2>1, <2>2, <2>3 DEF Top
<1>8. QED BY <1>3, <1>5, <1>6, <1>7 DEF Clean

LEMMA CleanNext == ASSUME IInv, Clean, [Next]_vars PROVE Clean'
<1>1. frames = <<>> => active = 0
  BY IdleUnheld
<1>2. TypeOK /\ next_id \in Nat /\ next_id + 1 \in Nat
  BY DEF IInv, TypeOK
<1>3. ASSUME NEW kind \in GuardedKinds, EnterGuarded(kind) PROVE Clean'
  BY <1>3, CleanEnter DEF EnterGuarded, Kinds
<1>4. CASE EnterDirect
  <2>1. "direct" \in Kinds
    BY DEF Kinds
  <2>2. /\ frames' = Started("direct") /\ next_id' = next_id /\ live' \subseteq live
        /\ active = 0 => ~over_limit' /\ live' = {}
    BY <1>4 DEF EnterDirect, Release
  <2>3. QED BY <1>1, <2>1, <2>2, CleanEnter
<1>5. ASSUME frames # <<>>, NEW root, NEW size, NEW over \in BOOLEAN, Making(root, size, over)
      PROVE  Clean'
  <2> DEFINE top == Grown(root, size, over)
  <2>1. Top \in Frame
    BY <1>2, <1>5, TopFacts
  <2>2. /\ top.from = Top.from /\ top.kind = Top.kind /\ top.nested = Top.nested
        /\ top.outgrew = (Top.outgrew \/ over)
    BY <2>1 DEF Grown, Frame
  <2>3. /\ frames' = [frames EXCEPT ![Len(frames)] = top] /\ next_id' = next_id + 1
        /\ live' = live \cup {next_id + 1} /\ over_limit' = (over_limit \/ over)
    BY <1>5 DEF Making
  <2>4. live' \subseteq live \cup next_id + 1 .. next_id' /\ next_id <= next_id' /\ next_id' \in Nat
    BY <1>2, <2>3
  <2>5. over_limit = Top.outgrew => over_limit' = top.outgrew
    BY <2>2, <2>3
  <2> HIDE DEF top
  <2>6. QED BY <1>5, <2>2, <2>3, <2>4, <2>5, CleanWork
<1>6. CASE StartExpr
  BY <1>5, <1>6 DEF StartExpr, Parsing
<1>7. CASE GrowExpr
  <2>1. (Top.size + 1 > NodeLimit) \in BOOLEAN
    OBVIOUS
  <2>2. frames # <<>> /\ Making(Top.root, Top.size + 1, Top.size + 1 > NodeLimit)
    BY <1>7 DEF GrowExpr, Parsing
  <2>3. QED BY <1>5, <2>1, <2>2
<1>8. CASE GrowOrphan
  <2>1. (2 > NodeLimit) \in BOOLEAN
    OBVIOUS
  <2>2. frames # <<>> /\ Making(next_id + 1, 2, 2 > NodeLimit)
    BY <1>8 DEF GrowOrphan, Parsing
  <2>3. QED BY <1>5, <2>1, <2>2
<1>9. CASE Use
  <2> DEFINE top == [Top EXCEPT !.phase = "use"]
  <2>1. frames # <<>> /\ Top \in Frame
    BY <1>2, <1>9, TopFacts DEF Use, Parsing
  <2>2. /\ top.from = Top.from /\ top.kind = Top.kind /\ top.nested = Top.nested
        /\ top.outgrew = Top.outgrew
    BY <2>1 DEF Frame
  <2>3. frames' = [frames EXCEPT ![Len(frames)] = top]
    BY <1>9 DEF Use, Top
  <2>4. /\ next_id' \in Nat /\ next_id <= next_id'
        /\ live' \subseteq live \cup next_id + 1 .. next_id'
    BY <1>2, <1>9 DEF Use
  <2>5. over_limit = Top.outgrew => over_limit' = top.outgrew
    BY <1>9, <2>2 DEF Use
  <2> HIDE DEF top
  <2>6. QED BY <2>1, <2>2, <2>3, <2>4, <2>5, CleanWork
<1>10. CASE Return \/ Finish \/ Cancel \/ Fail
  BY <1>10, CleanEnd DEF Return, Finish, Cancel, Fail, Parsing
<1>11. CASE UNCHANGED vars
  BY <1>11 DEF vars, Clean, FromBefore, BottomHolds, NothingLeaks, OwnLimitAlone, Top
<1>12. QED BY <1>3, <1>4, <1>6, <1>7, <1>8, <1>9, <1>10, <1>11 DEF Next

LEMMA AlwaysClean == Spec => []Clean
<1>1. Init => Clean
  BY CleanInit
<1>2. IInv /\ Clean /\ [Next]_vars => Clean'
  BY CleanNext
<1>3. QED BY <1>1, <1>2, AlwaysIInv, PTL DEF Spec

\* With no parse in flight the arena is empty, or holds what the last parse,
\* a direct one, made: an error or a panic leaks no more than a success.
THEOREM AlwaysNothingLeaks == Spec => []NothingLeaks
<1>1. Clean => NothingLeaks
  BY DEF Clean
<1>2. QED BY <1>1, AlwaysClean, PTL

\* A parse that is alone is refused for its own expressions only: no earlier
\* one leaves the flag up, whatever way it ended.
THEOREM AlwaysOwnLimitAlone == Spec => []OwnLimitAlone
<1>1. Clean => OwnLimitAlone
  BY DEF Clean
<1>2. QED BY <1>1, AlwaysClean, PTL

(***************************************************************************)
(* The refinement of ArenaScopes: a step of the arena is a step or a       *)
(* stutter of the scopes.                                                  *)
(***************************************************************************)
\* What ArenaLifecycle puts for ArenaScopes' scopes, usable and known.
S == [i \in GuardedAt |-> frames[i].made]
U == live \cap UNION {frames[i].made : i \in GuardedAt}
K == 1..next_id

Mapped == <<S, U, K>>

LEMMA RefEnterGuarded ==
  ASSUME IInv, NEW kind \in GuardedKinds, EnterGuarded(kind)
  PROVE  Scopes!Open(Len(frames) + 1) /\ Len(frames) + 1 \in 1..MaxDepth
<1>1. TypeOK /\ kind \in Kinds /\ Len(frames) \in Nat /\ DOMAIN frames = 1..Len(frames)
  BY DEF IInv, TypeOK, Kinds
<1>2. /\ \A i \in DOMAIN frames : frames'[i].made = frames[i].made
      /\ frames'[Len(frames) + 1].made = {}
      /\ GuardedAt' = GuardedAt \cup {Len(frames) + 1}
  BY <1>1, EnterStep DEF EnterGuarded
<1>3. GuardedAt \subseteq DOMAIN frames
  BY DEF GuardedAt
<1>4. live' = live /\ next_id' = next_id /\ Len(frames) < MaxDepth
  BY DEF EnterGuarded, MayStart
<1>5. \A j \in DOMAIN S : j < Len(frames) + 1
  BY <1>1, <1>3 DEF S
<1>6. S' = [j \in DOMAIN S \cup {Len(frames) + 1} |-> IF j = Len(frames) + 1 THEN {} ELSE S[j]]
  BY <1>1, <1>2, <1>3 DEF S
<1>7. U' = U
  BY <1>2, <1>3, <1>4 DEF U
<1>8. K' = K
  BY <1>4 DEF K
<1>9. Len(frames) + 1 \in 1..MaxDepth
  BY <1>1, <1>4, LifecycleAssumption
<1>10. QED BY <1>5, <1>6, <1>7, <1>8, <1>9 DEF Scopes!Open, S, U, K

LEMMA RefEnterDirect == ASSUME IInv, EnterDirect PROVE UNCHANGED Mapped
<1>1. TypeOK /\ "direct" \in Kinds /\ "direct" \notin GuardedKinds
  BY DEF IInv, Kinds, GuardedKinds
<1>2. /\ \A i \in DOMAIN frames : frames'[i].made = frames[i].made
      /\ GuardedAt' = GuardedAt
  BY <1>1, EnterStep DEF EnterDirect
<1>3. GuardedAt \subseteq DOMAIN frames
  BY DEF GuardedAt
<1>4. active = 0 => GuardedAt = {}
  BY GuardedFinite, FS_EmptySet DEF IInv, ActiveCounts
<1>5. next_id' = next_id /\ (active # 0 => live' = live)
  BY DEF EnterDirect, Release
<1>6. S' = S /\ K' = K
  BY <1>2, <1>3, <1>5 DEF S, K
<1>7. U' = U
  BY <1>2, <1>3, <1>4, <1>5 DEF U
<1>8. QED BY <1>6, <1>7 DEF Mapped

\* A node made in a guarded parse, and one made in a direct parse.
LEMMA RefMake ==
  ASSUME IInv, frames # <<>>, NEW root \in Nat, NEW size \in Nat, NEW over \in BOOLEAN,
         Making(root, size, over)
  PROVE  /\ next_id + 1 \in 1..MaxNodes
         /\ Guarded(Top) => Len(frames) \in 1..MaxDepth /\ Scopes!Make(Len(frames), next_id + 1)
         /\ ~Guarded(Top) => Scopes!MakeUnscoped(next_id + 1)
<1> DEFINE n == next_id + 1
<1>1. /\ TypeOK /\ Len(frames) \in DOMAIN frames /\ Len(frames) \in Nat
      /\ DOMAIN frames = 1..Len(frames) /\ next_id \in Nat
  BY TopFacts DEF IInv, TypeOK
<1>2. /\ \A i \in DOMAIN frames :
           frames'[i].made = frames[i].made \cup (IF i = Len(frames) THEN {n} ELSE {})
      /\ GuardedAt' = GuardedAt /\ GuardedAt \subseteq DOMAIN frames
  BY <1>1, MakeStep DEF GuardedAt
<1>3. live' = live \cup {n} /\ next_id' = n /\ n \in 1..MaxNodes
  BY <1>1, LifecycleAssumption DEF Making
<1>4. n \notin K /\ K' = K \cup {n}
  BY <1>1, <1>3 DEF K
<1>5. n \notin live /\ \A i \in DOMAIN frames : n \notin frames[i].made
  BY <1>1 DEF TypeOK
<1>6. Len(frames) \in GuardedAt <=> Guarded(Top)
  BY <1>1 DEF GuardedAt, Top
<1>7. CASE Guarded(Top)
  <2>1. Len(frames) \in 1..MaxDepth
    BY <1>1, LifecycleAssumption DEF IInv, WithinDepth
  <2>2. Len(frames) \in DOMAIN S /\ \A j \in DOMAIN S : j <= Len(frames)
    BY <1>1, <1>2, <1>6, <1>7 DEF S
  <2>3. S' = [S EXCEPT ![Len(frames)] = @ \cup {n}]
    BY <1>1, <1>2, <1>6, <1>7 DEF S
  <2>4. U' = U \cup {n}
    <3>1. n \in frames'[Len(frames)].made
      BY <1>1, <1>2
    <3>2. n \in U'
      BY <1>2, <1>3, <1>6, <1>7, <3>1 DEF U
    <3>3. ASSUME NEW x, x # n PROVE x \in U' <=> x \in U
      BY <1>2, <1>3, <3>3 DEF U
    <3>4. QED BY <3>2, <3>3
  <2>5. Scopes!Innermost(Len(frames))
    BY <2>2 DEF Scopes!Innermost, S
  <2>6. QED BY <1>3, <1>4, <1>7, <2>1, <2>3, <2>4, <2>5 DEF Scopes!Make, S, U, K
<1>8. CASE ~Guarded(Top)
  <2>1. \A i \in GuardedAt : frames'[i].made = frames[i].made
    BY <1>2, <1>6, <1>8
  <2>2. S' = S
    BY <1>2, <2>1 DEF S
  <2>3. U' = U
    BY <1>2, <1>3, <1>5, <2>1 DEF U
  <2>4. QED BY <1>3, <1>4, <1>8, <2>2, <2>3 DEF Scopes!MakeUnscoped, S, U, K
<1>9. QED BY <1>7, <1>8

LEMMA RefUse == ASSUME IInv, Use PROVE UNCHANGED Mapped
<1>1. /\ \A i \in DOMAIN frames : frames'[i].made = frames[i].made
      /\ GuardedAt' = GuardedAt /\ GuardedAt \subseteq DOMAIN frames
  BY UseStep DEF IInv, GuardedAt
<1>2. live' = live /\ next_id' = next_id
  BY DEF Use
<1>3. S' = S /\ U' = U /\ K' = K
  BY <1>1, <1>2 DEF S, U, K
<1>4. QED BY <1>3 DEF Mapped

\* The end of a guarded parse takes its nodes; of a direct one, none.
LEMMA RefEnd ==
  ASSUME IInv, frames # <<>>, Ending
  PROVE  \/ Len(frames) \in 1..MaxDepth /\ Scopes!Close(Len(frames))
         \/ UNCHANGED Mapped
<1>1. /\ TypeOK /\ Len(frames) \in DOMAIN frames /\ Len(frames) \in Nat
      /\ DOMAIN frames = 1..Len(frames)
  BY TopFacts DEF IInv
<1>2. /\ \A i \in DOMAIN frames' : frames'[i] = frames[i]
      /\ GuardedAt' = GuardedAt \ {Len(frames)} /\ next_id' = next_id
      /\ live' \subseteq live /\ (GuardedAt' # {} \/ ~Guarded(Top) => live' = live)
  BY EndStep DEF IInv
<1>3. GuardedAt \subseteq DOMAIN frames /\ GuardedAt' \subseteq DOMAIN frames'
  BY DEF GuardedAt
<1>4. K' = K
  BY <1>2 DEF K
<1>5. Len(frames) \in GuardedAt <=> Guarded(Top)
  BY <1>1 DEF GuardedAt, Top
<1>6. S' = [j \in DOMAIN S \ {Len(frames)} |-> S[j]]
  BY <1>2, <1>3 DEF S
<1>7. CASE Guarded(Top)
  <2>1. Len(frames) \in 1..MaxDepth
    BY <1>1, LifecycleAssumption DEF IInv, WithinDepth
  <2>2. Len(frames) \in DOMAIN S /\ \A j \in DOMAIN S : j <= Len(frames)
    BY <1>1, <1>3, <1>5, <1>7 DEF S
  <2>3. U' = U \ S[Len(frames)]
    <3>1. S[Len(frames)] = frames[Len(frames)].made
      BY <1>5, <1>7 DEF S
    <3>2. \A i \in GuardedAt' : /\ frames'[i].made = frames[i].made /\ i \in GuardedAt
                                /\ frames[i].made \cap frames[Len(frames)].made = {}
      BY <1>1, <1>2, <1>3 DEF IInv, MadeApart
    <3>3. CASE GuardedAt' = {}
      <4>1. U' = {}
        BY <3>3 DEF U
      <4>2. GuardedAt = {Len(frames)}
        BY <1>2, <1>5, <1>7, <3>3
      <4>3. U \subseteq frames[Len(frames)].made
        BY <4>2 DEF U
      <4>4. QED BY <3>1, <4>1, <4>3
    <3>4. CASE GuardedAt' # {}
      <4>1. live' = live
        BY <1>2, <3>4
      <4>2. ASSUME NEW x PROVE x \in U' => x \in U /\ x \notin frames[Len(frames)].made
        BY <3>2, <4>1 DEF U
      <4>3. ASSUME NEW x, x \in U, x \notin frames[Len(frames)].made PROVE x \in U'
        <5>1. PICK i \in GuardedAt : x \in frames[i].made
          BY <4>3 DEF U
        <5>2. i \in GuardedAt' /\ x \in live
          BY <1>2, <4>3, <5>1 DEF U
        <5>3. QED BY <3>2, <4>1, <5>1, <5>2 DEF U
      <4>4. QED BY <3>1, <4>2, <4>3
    <3>5. QED BY <3>3, <3>4
  <2>4. Scopes!Innermost(Len(frames))
    BY <2>2 DEF Scopes!Innermost, S
  <2>5. QED BY <1>4, <1>6, <2>1, <2>3, <2>4 DEF Scopes!Close, S, U, K
<1>8. CASE ~Guarded(Top)
  <2>1. GuardedAt' = GuardedAt /\ live' = live
    BY <1>2, <1>5, <1>8
  <2>2. S' = S
    BY <1>2, <1>3, <2>1 DEF S
  <2>3. U' = U
    BY <1>2, <1>3, <2>1 DEF U
  <2>4. QED BY <1>4, <2>2, <2>3 DEF Mapped
<1>9. QED BY <1>7, <1>8

LEMMA RefInit == ASSUME Init PROVE Scopes!Init
<1>1. GuardedAt = {} /\ live = {} /\ 1..next_id = {}
  BY DEF Init, GuardedAt
<1>2. QED BY <1>1 DEF Scopes!Init

LEMMA RefNext == ASSUME IInv, [Next]_vars PROVE [Scopes!Next]_(Scopes!svars)
<1>1. UNCHANGED Mapped => UNCHANGED Scopes!svars
  BY DEF Mapped, Scopes!svars, S, U, K
<1>2. ASSUME NEW kind \in GuardedKinds, EnterGuarded(kind) PROVE Scopes!Next
  <2>1. Scopes!Open(Len(frames) + 1) /\ Len(frames) + 1 \in 1..MaxDepth
    BY <1>2, RefEnterGuarded
  <2>2. QED BY <2>1 DEF Scopes!Next, Scopes!Open
<1>3. CASE EnterDirect
  BY <1>1, <1>3, RefEnterDirect
<1>4. ASSUME frames # <<>>, NEW root \in Nat, NEW size \in Nat, NEW over \in BOOLEAN,
             Making(root, size, over)
      PROVE  Scopes!Next
  <2>1. /\ next_id + 1 \in 1..MaxNodes
        /\ Guarded(Top) => Len(frames) \in 1..MaxDepth /\ Scopes!Make(Len(frames), next_id + 1)
        /\ ~Guarded(Top) => Scopes!MakeUnscoped(next_id + 1)
    BY <1>4, RefMake
  <2>2. QED BY <2>1 DEF Scopes!Next, Scopes!Make, Scopes!MakeUnscoped, Scopes!Innermost
<1>5. ASSUME frames # <<>>, Ending PROVE [Scopes!Next]_(Scopes!svars)
  <2>1. \/ Len(frames) \in 1..MaxDepth /\ Scopes!Close(Len(frames))
        \/ UNCHANGED Mapped
    BY <1>5, RefEnd
  <2>2. QED BY <1>1, <2>1 DEF Scopes!Next, Scopes!Close, Scopes!Innermost
<1>6. next_id + 1 \in Nat
  BY DEF IInv, TypeOK
<1>7. CASE StartExpr
  BY <1>4, <1>6, <1>7 DEF StartExpr, Parsing
<1>8. CASE GrowExpr
  <2>1. Top \in Frame /\ frames # <<>>
    BY <1>8, TopFacts DEF GrowExpr, Parsing, IInv
  <2>2. Top.root \in Nat /\ Top.size + 1 \in Nat
    BY <2>1 DEF Frame
  <2>3. (Top.size + 1 > NodeLimit) \in BOOLEAN
    OBVIOUS
  <2>4. Making(Top.root, Top.size + 1, Top.size + 1 > NodeLimit)
    BY <1>8 DEF GrowExpr
  <2>5. QED BY <1>4, <2>1, <2>2, <2>3, <2>4
<1>9. CASE GrowOrphan
  <2>1. (2 > NodeLimit) \in BOOLEAN /\ 2 \in Nat
    OBVIOUS
  <2>2. frames # <<>> /\ Making(next_id + 1, 2, 2 > NodeLimit)
    BY <1>9 DEF GrowOrphan, Parsing
  <2>3. QED BY <1>4, <1>6, <2>1, <2>2
<1>10. CASE Use
  BY <1>1, <1>10, RefUse
<1>11. CASE Return \/ Finish \/ Cancel \/ Fail
  BY <1>5, <1>11 DEF Return, Finish, Cancel, Fail, Parsing
<1>12. CASE UNCHANGED vars
  <2>1. UNCHANGED Mapped
    BY <1>12 DEF vars, Mapped, S, U, K, GuardedAt
  <2>2. QED BY <1>1, <2>1
<1>13. QED
  BY <1>2, <1>3, <1>7, <1>8, <1>9, <1>10, <1>11, <1>12 DEF Next

\* A parse inside another takes none of its nodes, and the end of one takes
\* its own and no others: the arena implements ArenaScopes.
THEOREM ImplementsScopes == Spec => ScopesHeld
<1>1. Init => Scopes!Init
  BY RefInit
<1>2. IInv /\ [Next]_vars => [Scopes!Next]_(Scopes!svars)
  BY RefNext
<1>3. QED BY <1>1, <1>2, AlwaysIInv, PTL DEF Spec, ScopesHeld, Scopes!Spec
=============================================================================
