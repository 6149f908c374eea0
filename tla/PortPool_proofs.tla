--------------------------- MODULE PortPool_proofs ---------------------------
(***************************************************************************)
(* Proofs about PortPool: for any number of instances, any candidate list  *)
(* and any ports other programs hold, no instance runs out of candidates   *)
(* while there are enough for all.                                         *)
(***************************************************************************)
EXTENDS PortPool, PortParser_proofs, FiniteSetTheorems, TLAPS

(* The instances beyond place m.                                           *)
Ahead(m) == {i \in Instances : inst[i].place > m}

(* The argument: an instance passes a free candidate only because another  *)
(* one holds it, and that one stays at that place.  So of n instances at   *)
(* most n - f are ever beyond a place that has f free candidates up to it. *)
Counted ==
    IsInjective(candidates) =>
        \A m \in 0..Len(candidates) : Ahead(m) # {} =>
            Cardinality(Ahead(m)) + Cardinality(FreePlaces(m)) <= Cardinality(Instances)

(* The numbers in Counted are numbers.                                     *)
LEMMA Finite ==
    ASSUME NEW m \in Nat
    PROVE  /\ IsFiniteSet(Ahead(m)) /\ Cardinality(Ahead(m)) \in Nat
           /\ Cardinality(Ahead(m)) <= Cardinality(Instances)
           /\ IsFiniteSet(FreePlaces(m)) /\ Cardinality(FreePlaces(m)) \in Nat
           /\ Cardinality(Instances) \in Nat
<1>1. IsFiniteSet(Instances) /\ Ahead(m) \in SUBSET Instances
  BY PortPoolAssumption DEF Ahead
<1>2. IsFiniteSet(1..m) /\ FreePlaces(m) \in SUBSET (1..m)
  BY FS_Interval DEF FreePlaces
<1> QED
  BY <1>1, <1>2, FS_Subset, FS_CardinalityType

(* A subset of a finite set has at most as many elements.                  *)
LEMMA SubsetCount ==
    ASSUME NEW S, IsFiniteSet(S), NEW T, T \subseteq S
    PROVE  /\ IsFiniteSet(T) /\ Cardinality(T) \in Nat /\ Cardinality(S) \in Nat
           /\ Cardinality(T) <= Cardinality(S)
<1>1. T \in SUBSET S
  OBVIOUS
<1> QED
  BY <1>1, FS_Subset, FS_CardinalityType

(* One more place has at most one more free candidate.                     *)
LEMMA FreeNext ==
    ASSUME NEW m \in Nat \ {0}
    PROVE  /\ candidates[m] \in Foreign => FreePlaces(m) = FreePlaces(m - 1)
           /\ Cardinality(FreePlaces(m)) <= Cardinality(FreePlaces(m - 1)) + 1
<1>1. m - 1 \in Nat /\ 1..m = (1..(m - 1)) \cup {m} /\ m \notin 1..(m - 1)
  OBVIOUS
<1>2. CASE candidates[m] \in Foreign
  <2>1. FreePlaces(m) = FreePlaces(m - 1)
    BY <1>1, <1>2 DEF FreePlaces
  <2> QED
    BY <1>1, <2>1, Finite
<1>3. CASE candidates[m] \notin Foreign
  <2>1. FreePlaces(m) = FreePlaces(m - 1) \cup {m}
    BY <1>1, <1>3 DEF FreePlaces
  <2>2. IsFiniteSet(FreePlaces(m - 1)) /\ m \notin FreePlaces(m - 1)
    BY <1>1, Finite DEF FreePlaces
  <2>3. Cardinality(FreePlaces(m)) = Cardinality(FreePlaces(m - 1)) + 1
    BY <2>1, <2>2, FS_AddElement
  <2>4. Cardinality(FreePlaces(m - 1)) \in Nat
    BY <1>1, Finite
  <2> QED
    BY <1>3, <2>3, <2>4
<1> QED
  BY <1>2, <1>3

-----------------------------------------------------------------------------
(* The list of candidates is one of numbers.                               *)
LEMMA ListOfNumbers ==
    ASSUME TypeOK
    PROVE  /\ candidates \in Seq(Nat) /\ Len(candidates) \in Nat
           /\ DOMAIN candidates = 1..Len(candidates)
<1>1. reader["service"] \in [pc : {"text", "range", "done", "refused"}, chunk : Nat \ {0},
                            port : Nat, ports : Seq(Nat)]
  BY DEF TypeOK, Readers
<1> QED
  BY <1>1 DEF candidates

(* An instance goes to candidate k: one it has already passed, the first,  *)
(* or the next because the port of the one it is at is taken.              *)
Fits(pc, k) ==
    \/ pc = "off" /\ k = 0
    \/ pc = "failed" /\ \A r \in Readers : Over(r)
    \/ /\ pc # "off" /\ \A r \in Readers : Over(r)
       /\ k \in 1..(Len(candidates) + 1)
       /\ pc \in {"bound", "reserved", "released", "serving"} => k \in DOMAIN candidates
       /\ pc = "exhausted" => k > Len(candidates)

Passes(i, k) ==
    /\ k = inst[i].place + 1
    /\ inst[i].pc \in {"trying", "bound"}
    /\ inst[i].place \in DOMAIN candidates
    /\ Taken(PortOf(i))

StepTo(i, pc, k) ==
    /\ pc \in PCs /\ k \in Nat /\ Fits(pc, k)
    /\ inst' = [inst EXCEPT ![i] = At(pc, k)]
    /\ k <= inst[i].place \/ k = 1 \/ Passes(i, k)

(* Every step of an instance is of this kind and keeps the configuration.  *)
LEMMA StepShape ==
    ASSUME TypeOK, NEW i \in Instances, Start(i) \/ Run(i) \/ Die(i)
    PROVE  UNCHANGED config /\ \E pc, k : StepTo(i, pc, k)
<1> DEFINE place == inst[i].place
<1>0. /\ inst[i].pc \in PCs /\ place \in Nat /\ Len(candidates) \in Nat
      /\ DOMAIN candidates = 1..Len(candidates)
      /\ inst[i].pc \notin {"off", "failed"} => place \in 1..(Len(candidates) + 1)
      /\ inst[i].pc \in {"bound", "reserved", "released", "serving"} =>
             place \in DOMAIN candidates
      /\ inst[i].pc # "off" => \A r \in Readers : Over(r)
  BY ListOfNumbers DEF TypeOK
<1>1. ASSUME NEW pc \in PCs, Move(i, pc), inst[i].pc \notin {"off", "failed"},
             \/ place \in DOMAIN candidates /\ pc # "exhausted"
             \/ place > Len(candidates) /\ pc = "exhausted",
             pc # "off"
      PROVE  StepTo(i, pc, place)
  <2>1. inst' = [inst EXCEPT ![i] = At(pc, place)]
    BY <1>1 DEF Move
  <2>2. Fits(pc, place)
    BY <1>0, <1>1 DEF Fits
  <2> QED
    BY <1>0, <1>1, <2>1, <2>2 DEF StepTo
<1>2. ASSUME NextPlace(i), place \in DOMAIN candidates, Taken(PortOf(i)),
             inst[i].pc \in {"trying", "bound"}
      PROVE  StepTo(i, "trying", place + 1)
  <2>1. inst' = [inst EXCEPT ![i] = At("trying", place + 1)]
    BY <1>2 DEF NextPlace
  <2>2. Fits("trying", place + 1) /\ Passes(i, place + 1)
    BY <1>0, <1>2 DEF Fits, Passes
  <2> QED
    BY <1>0, <2>1, <2>2 DEF StepTo, PCs
<1>3. ASSUME Start(i)
      PROVE  \E pc, k : StepTo(i, pc, k)
  <2>1. CASE reader["service"].pc = "done"
    <3>1. inst' = [inst EXCEPT ![i] = At("trying", 1)]
      BY <1>3, <2>1 DEF Start
    <3>2. Fits("trying", 1)
      BY <1>0, <1>3 DEF Fits, Start
    <3>3. StepTo(i, "trying", 1)
      BY <1>0, <3>1, <3>2 DEF StepTo, PCs
    <3> QED
      BY <3>3
  <2>2. CASE reader["service"].pc # "done"
    <3>1. inst' = [inst EXCEPT ![i] = At("failed", 0)]
      BY <1>3, <2>2 DEF Start
    <3>2. Fits("failed", 0)
      BY <1>0, <1>3 DEF Fits, Start
    <3>3. StepTo(i, "failed", 0)
      BY <1>0, <3>1, <3>2 DEF StepTo, PCs
    <3> QED
      BY <3>3
  <2> QED
    BY <2>1, <2>2
<1>4. ASSUME Die(i)
      PROVE  \E pc, k : StepTo(i, pc, k)
  <2>1. inst' = [inst EXCEPT ![i] = At("off", 0)]
    BY <1>4 DEF Die, Off, At
  <2>2. StepTo(i, "off", 0)
    BY <1>0, <2>1 DEF StepTo, Fits, PCs
  <2> QED
    BY <2>2
<1>5. ASSUME Run(i)
      PROVE  \E pc, k : StepTo(i, pc, k)
  <2>1. CASE Bind(i) \/ Reserve(i)
    <3>1. inst[i].pc = "trying" /\ place \in DOMAIN candidates
      BY <1>0, <2>1 DEF Bind, Reserve, Trying
    <3>2. \/ Move(i, "failed") \/ Move(i, "reserved") \/ Move(i, "bound")
          \/ NextPlace(i) /\ Taken(PortOf(i))
      <4>1. ASSUME Bind(i)
            PROVE  Move(i, "bound") \/ (NextPlace(i) /\ Taken(PortOf(i)))
        BY <4>1 DEF Bind
      <4>2. ASSUME Reserve(i)
            PROVE  \/ Move(i, "failed") \/ Move(i, "reserved")
                   \/ NextPlace(i) /\ Taken(PortOf(i))
        BY <4>2 DEF Reserve
      <4> QED
        BY <2>1, <4>1, <4>2
    <3> HIDE DEF place
    <3> QED
      BY <1>1, <1>2, <3>1, <3>2 DEF PCs
  <2>2. CASE Listen(i)
    <3>1. Move(i, "serving") \/ (NextPlace(i) /\ Taken(PortOf(i)))
      BY <2>2 DEF Listen
    <3>2. inst[i].pc = "bound" /\ place \in DOMAIN candidates
      BY <1>0, <2>2 DEF Listen
    <3> HIDE DEF place
    <3> QED
      BY <1>1, <1>2, <3>1, <3>2 DEF PCs
  <2>3. CASE Release(i) \/ Rebind(i)
    <3>1. Move(i, "released") \/ Move(i, "serving") \/ Move(i, "failed")
      BY <2>3 DEF Release, Rebind
    <3>2. inst[i].pc \in {"reserved", "released"} /\ place \in DOMAIN candidates
      BY <1>0, <2>3 DEF Release, Rebind
    <3> HIDE DEF place
    <3> QED
      BY <1>1, <3>1, <3>2 DEF PCs
  <2>4. CASE GiveUp(i)
    <3>1. Move(i, "exhausted") /\ inst[i].pc = "trying" /\ place > Len(candidates)
      BY <2>4 DEF GiveUp
    <3> HIDE DEF place
    <3> QED
      BY <1>1, <3>1 DEF PCs
  <2> QED
    BY <1>5, <2>1, <2>2, <2>3, <2>4 DEF Run
<1>6. UNCHANGED config
  BY DEF Start, Run, Die, Bind, Listen, Reserve, Release, Rebind, GiveUp, Move, NextPlace
<1> QED
  BY <1>3, <1>4, <1>5, <1>6

(* The text is read before any instance starts.                            *)
LEMMA ReadEarly ==
    ASSUME TypeOK, Read
    PROVE  \A i \in Instances : inst[i].pc = "off" /\ inst[i].place = 0
<1>1. PICK r \in Readers : ~Over(r)
  BY DEF Read, OpenChunk, ReadPort, Close, Reads, Over
<1> QED
  BY <1>1 DEF TypeOK

(* The types hold at the start and each step keeps them, and so does what  *)
(* the parsers have read.                                                  *)
PortInv == TypeOK /\ ReadOK

LEMMA PortInvHolds == Spec => []PortInv
<1>1. Init => PortInv
  <2> SUFFICES ASSUME Init
               PROVE  PortInv
    OBVIOUS
  <2>1. ReadOK
    BY ReadKeeps DEF Init
  <2>2. \A i \in Instances : inst[i] = Off
    BY DEF Init
  <2> QED
    BY <2>1, <2>2 DEF Init, PortInv, TypeOK, ReadOK, ReaderType, Off, PCs
<1>2. PortInv /\ [Next]_vars => PortInv'
  <2> SUFFICES ASSUME PortInv, [Next]_vars
               PROVE  PortInv'
    OBVIOUS
  <2>1. CASE UNCHANGED vars
    <3>1. TypeOK'
      BY <2>1 DEF PortInv, TypeOK, vars, config, candidates, Over
    <3>2. ReadOK'
      BY <2>1, ReadStays DEF PortInv, vars, config
    <3> QED
      BY <3>1, <3>2 DEF PortInv
  <2>2. CASE Read /\ UNCHANGED inst
    <3>1. ReadOK'
      BY <2>2, ReadKeeps DEF PortInv
    <3>2. \A i \in Instances : inst'[i].pc = "off" /\ inst'[i].place = 0
      BY <2>2, ReadEarly DEF PortInv
    <3> QED
      BY <2>2, <3>1, <3>2 DEF PortInv, TypeOK, ReadOK, ReaderType
  <2>3. ASSUME NEW i \in Instances, Start(i) \/ Run(i) \/ Die(i)
        PROVE  PortInv'
    <3>1. PICK pc, k : /\ pc \in PCs /\ k \in Nat /\ Fits(pc, k)
                       /\ inst' = [inst EXCEPT ![i] = At(pc, k)]
      BY <2>3, StepShape DEF StepTo, PortInv
    <3>2. UNCHANGED <<setting, reader>>
      BY <2>3, StepShape DEF config, PortInv
    <3>3. At(pc, k) \in [pc : PCs, place : Nat] /\ At(pc, k).pc = pc /\ At(pc, k).place = k
      BY <3>1 DEF At
    <3>4. inst' \in [Instances -> [pc : PCs, place : Nat]]
      BY <3>1, <3>3 DEF TypeOK, PortInv
    <3>5. ASSUME NEW j \in Instances
          PROVE  /\ IF inst'[j].pc = "off" THEN inst'[j].place = 0
                    ELSE \A r \in Readers : Over(r)
                 /\ inst'[j].pc \notin {"off", "failed"} =>
                        inst'[j].place \in 1..(Len(candidates) + 1)
                 /\ inst'[j].pc \in {"bound", "reserved", "released", "serving"} =>
                        inst'[j].place \in DOMAIN candidates
                 /\ inst'[j].pc = "exhausted" => inst'[j].place > Len(candidates)
      <4>1. CASE j = i
        BY <3>1, <3>3, <4>1 DEF TypeOK, Fits, PortInv
      <4>2. CASE j # i
        BY <3>1, <4>2 DEF TypeOK, PortInv
      <4> QED
        BY <4>1, <4>2
    <3>6. candidates' = candidates /\ \A r \in Readers : Over(r)' = Over(r)
      BY <3>2 DEF candidates, Over
    <3>7. TypeOK'
      BY <3>2, <3>4, <3>5, <3>6 DEF TypeOK, PortInv
    <3> QED
      BY <3>2, <3>7, ReadStays DEF PortInv
  <2> QED
    BY <2>1, <2>2, <2>3 DEF Next
<1> QED
  BY <1>1, <1>2, PTL DEF Spec

THEOREM PortPoolTypeCorrect == Spec => []TypeOK
  BY PortInvHolds, PTL DEF PortInv

(* However ranges overlap, each parser ends with the ports its text names, *)
(* once each, and refuses exactly the malformed texts.                     *)
THEOREM CandidatesAsMeantHolds == Spec => []CandidatesAsMeant
<1>1. PortInv => CandidatesAsMeant
  BY ReadAsMeant DEF PortInv
<1> QED
  BY <1>1, PortInvHolds, PTL

-----------------------------------------------------------------------------
(* Passing place m: those beyond m grow by one, and the one who holds the  *)
(* port of m, unless another program does, was not and is not among them.  *)
LEMMA PassKeepsCount ==
    ASSUME TypeOK, Counted, IsInjective(candidates), NEW i \in Instances, NEW pc \in PCs,
           NEW m \in 1..Len(candidates), m = inst[i].place, Passes(i, m + 1),
           UNCHANGED config, inst' = [inst EXCEPT ![i] = At(pc, m + 1)]
    PROVE  Cardinality(Ahead(m)') + Cardinality(FreePlaces(m)) <= Cardinality(Instances)
<1>0. /\ Len(candidates) \in Nat /\ m \in Nat \ {0} /\ m - 1 \in Nat
      /\ inst \in [Instances -> [pc : PCs, place : Nat]]
      /\ DOMAIN candidates = 1..Len(candidates)
  BY ListOfNumbers DEF TypeOK
<1>1. Cardinality(Ahead(m - 1)) + Cardinality(FreePlaces(m - 1)) <= Cardinality(Instances)
  <2>1. i \in Ahead(m - 1)
    BY <1>0 DEF Ahead
  <2> QED
    BY <1>0, <2>1 DEF Counted
<1> DEFINE after == {j \in Instances : inst'[j].place > m}
<1>2. Ahead(m)' = after
  BY DEF Ahead
<1>3. ASSUME NEW j \in after
      PROVE  j \in Ahead(m - 1) /\ (j = i \/ inst[j].place > m)
  <2>1. CASE j = i
    BY <1>0, <2>1 DEF Ahead
  <2>2. CASE j # i
    BY <1>0, <1>3, <2>2 DEF Ahead
  <2> QED
    BY <2>1, <2>2
<1> HIDE DEF after
<1>4. ASSUME candidates[m] \in Foreign
      PROVE  Cardinality(after) + Cardinality(FreePlaces(m)) <= Cardinality(Instances)
  <2>1. after \subseteq Ahead(m - 1) /\ FreePlaces(m) = FreePlaces(m - 1)
    BY <1>0, <1>3, <1>4, FreeNext
  <2>2. Cardinality(after) <= Cardinality(Ahead(m - 1)) /\ Cardinality(after) \in Nat
    BY <1>0, <2>1, Finite, SubsetCount
  <2>3. /\ Cardinality(Ahead(m - 1)) \in Nat /\ Cardinality(Instances) \in Nat
        /\ Cardinality(FreePlaces(m)) \in Nat
    BY <1>0, Finite
  <2> QED
    BY <1>1, <2>1, <2>2, <2>3
<1>5. ASSUME candidates[m] \notin Foreign
      PROVE  Cardinality(after) + Cardinality(FreePlaces(m)) <= Cardinality(Instances)
  <2>1. PICK j \in Instances : Holds(j, candidates[m])
    BY <1>5 DEF Passes, Taken, PortOf
  <2>2. inst[j].place = m
    BY <1>0, <2>1 DEF Holds, PortOf, IsInjective
  <2>3. j # i
    BY <2>1 DEF Holds, Passes
  <2>4. j \in Ahead(m - 1) /\ j \notin after
    BY <1>0, <1>3, <2>2, <2>3 DEF Ahead, after
  <2>5. after \subseteq Ahead(m - 1) \ {j}
    BY <1>3, <2>4
  <2>6. /\ IsFiniteSet(Ahead(m - 1) \ {j})
        /\ Cardinality(Ahead(m - 1) \ {j}) = Cardinality(Ahead(m - 1)) - 1
    <3>1. IsFiniteSet(Ahead(m - 1))
      BY <1>0, Finite
    <3> QED
      BY <2>4, <3>1, FS_RemoveElement
  <2>7. Cardinality(after) <= Cardinality(Ahead(m - 1)) - 1 /\ Cardinality(after) \in Nat
    BY <2>5, <2>6, SubsetCount
  <2>8. /\ Cardinality(FreePlaces(m)) <= Cardinality(FreePlaces(m - 1)) + 1
        /\ Cardinality(FreePlaces(m)) \in Nat /\ Cardinality(FreePlaces(m - 1)) \in Nat
        /\ Cardinality(Ahead(m - 1)) \in Nat /\ Cardinality(Instances) \in Nat
    BY <1>0, FreeNext, Finite
  <2> QED
    BY <1>1, <2>7, <2>8
<1> QED
  BY <1>2, <1>4, <1>5

(* Every step keeps the count at every place.                              *)
LEMMA CountedStep ==
    ASSUME TypeOK, Counted, NEW i \in Instances, Start(i) \/ Run(i) \/ Die(i)
    PROVE  Counted'
<1>0. /\ Len(candidates) \in Nat /\ UNCHANGED <<candidates, config>>
      /\ inst \in [Instances -> [pc : PCs, place : Nat]]
  BY StepShape, ListOfNumbers DEF TypeOK, config, candidates
<1>1. PICK pc, k : StepTo(i, pc, k)
  BY StepShape
<1> SUFFICES ASSUME IsInjective(candidates), NEW m \in 0..Len(candidates), Ahead(m)' # {}
             PROVE  Cardinality(Ahead(m)') + Cardinality(FreePlaces(m)) <= Cardinality(Instances)
  BY <1>0 DEF Counted, FreePlaces
<1>2. /\ m \in Nat
      /\ Ahead(m) # {} =>
             Cardinality(Ahead(m)) + Cardinality(FreePlaces(m)) <= Cardinality(Instances)
  BY <1>0 DEF Counted
<1>3. At(pc, k).place = k /\ k \in Nat /\ inst' = [inst EXCEPT ![i] = At(pc, k)]
  BY <1>1 DEF StepTo, At
<1> DEFINE after == {j \in Instances : inst'[j].place > m}
<1>4. Ahead(m)' = after
  BY DEF Ahead
<1>5. CASE Passes(i, k) /\ m = inst[i].place
  <2>1. m \in 1..Len(candidates) /\ k = m + 1 /\ pc \in PCs
    BY <1>0, <1>1, <1>5 DEF Passes, StepTo, TypeOK
  <2> QED
    BY <1>0, <1>3, <1>5, <2>1, PassKeepsCount
<1>6. ASSUME m = 0
      PROVE  Cardinality(after) + Cardinality(FreePlaces(m)) <= Cardinality(Instances)
  <2>1. FreePlaces(m) = {} /\ after \subseteq Instances
    BY <1>6 DEF FreePlaces
  <2>2. Cardinality(FreePlaces(m)) = 0
    BY <2>1, FS_EmptySet
  <2>3. /\ Cardinality(after) <= Cardinality(Instances)
        /\ Cardinality(after) \in Nat
    BY <2>1, PortPoolAssumption, SubsetCount
  <2>4. Cardinality(Instances) \in Nat
    BY <1>2, Finite
  <2> HIDE DEF after
  <2> QED
    BY <2>2, <2>3, <2>4
<1>7. ASSUME m # 0, ~(Passes(i, k) /\ m = inst[i].place)
      PROVE  Cardinality(after) + Cardinality(FreePlaces(m)) <= Cardinality(Instances)
  <2>1. k > m => inst[i].place > m
    BY <1>0, <1>1, <1>2, <1>3, <1>7 DEF StepTo, Passes
  <2>2. after \subseteq Ahead(m)
    <3>1. ASSUME NEW j \in after
          PROVE  j \in Ahead(m)
      <4>1. CASE j = i
        BY <1>0, <1>3, <2>1, <3>1, <4>1 DEF Ahead
      <4>2. CASE j # i
        BY <1>0, <1>3, <3>1, <4>2 DEF Ahead
      <4> QED
        BY <4>1, <4>2
    <3> QED
      BY <3>1
  <2>0. Ahead(m) # {}
    BY <1>4, <2>2
  <2>3. Cardinality(after) <= Cardinality(Ahead(m)) /\ Cardinality(after) \in Nat
    BY <1>2, <2>2, Finite, SubsetCount
  <2>4. /\ Cardinality(Ahead(m)) \in Nat /\ Cardinality(Instances) \in Nat
        /\ Cardinality(FreePlaces(m)) \in Nat
    BY <1>2, Finite
  <2> HIDE DEF after
  <2> QED
    BY <1>2, <2>0, <2>3, <2>4
<1> QED
  BY <1>4, <1>5, <1>6, <1>7

(* The count holds in every reachable state.                               *)
THEOREM CountedHolds == Spec => []Counted
<1>1. Init => Counted
  BY DEF Init, Off, Ahead, Counted
<1>2. TypeOK /\ Counted /\ [Next]_vars => Counted'
  <2>1. ASSUME Counted, UNCHANGED vars
        PROVE  Counted'
    BY <2>1 DEF vars, config, candidates, Counted, Ahead, FreePlaces
  <2>2. ASSUME TypeOK, Read, UNCHANGED inst
        PROVE  Counted'
    <3>1. ASSUME NEW m \in Nat
          PROVE  Ahead(m)' = {}
      BY <2>2, <3>1, ReadEarly DEF Ahead
    <3> QED
      BY <3>1 DEF Counted
  <2> QED
    BY <2>1, <2>2, CountedStep DEF Next
<1> QED
  BY <1>1, <1>2, PortPoolTypeCorrect, PTL DEF Spec

(* With a candidate free for each instance, none of them ever runs out of  *)
(* candidates, whatever the races, the deaths and the restarts.            *)
THEOREM NobodyGivesUpHolds == Spec => []NobodyGivesUp
<1>1. TypeOK /\ Counted => NobodyGivesUp
  <2> DEFINE n == Len(candidates)
  <2> SUFFICES ASSUME TypeOK, Counted, Enough, NEW i \in Instances
               PROVE  inst[i].pc # "exhausted"
    BY DEF NobodyGivesUp
  <2>1. n \in Nat /\ n \in 0..n
    BY ListOfNumbers
  <2>2. CASE i \in Ahead(n)
    <3>1. Cardinality(Ahead(n)) + Cardinality(FreePlaces(n)) <= Cardinality(Instances)
      BY <2>1, <2>2 DEF Counted, Enough
    <3>2. Cardinality(Ahead(n)) # 0
      BY <2>1, <2>2, Finite, FS_EmptySet
    <3>3. /\ Cardinality(Ahead(n)) \in Nat /\ Cardinality(Instances) \in Nat
          /\ Cardinality(FreePlaces(n)) \in Nat
      BY <2>1, Finite
    <3>4. Cardinality(Instances) <= Cardinality(FreePlaces(n))
      BY DEF Enough
    <3> HIDE DEF n
    <3> QED
      BY <3>1, <3>2, <3>3, <3>4
  <2>3. CASE i \notin Ahead(n)
    BY <2>1, <2>3 DEF Ahead, TypeOK
  <2> QED
    BY <2>2, <2>3
<1> QED
  BY <1>1, PortPoolTypeCorrect, CountedHolds, PTL

-----------------------------------------------------------------------------
(* Every port of the list but the last is at a place of its own, so there  *)
(* are at least as many free places as free ports.                         *)
LEMMA FreePorts ==
    ASSUME TypeOK, NEW P, NEW m \in 0..Len(candidates),
           P = {candidates[k] : k \in 1..m}
    PROVE  Cardinality(P \ Foreign) <= Cardinality(FreePlaces(m))
<1>1. m \in Nat
  BY ListOfNumbers
<1> DEFINE f == [k \in FreePlaces(m) |-> candidates[k]]
<1>2. f \in Surjection(FreePlaces(m), P \ Foreign)
  BY DEF FreePlaces, Surjection
<1>3. IsFiniteSet(FreePlaces(m))
  BY <1>1, Finite
<1> QED
  BY <1>2, <1>3, FS_Surjection

(* The port of the system's choice, which the router cannot watch, is the  *)
(* last candidate of PORT; while the named ports suffice, nobody gets that *)
(* far.                                                                    *)
LEMMA NobodyAtLast ==
    ASSUME PortInv, Counted, reader["router"].pc = "done", reader["service"].pc = "done",
           EndsOpen("service"), Cardinality(Instances) <= Cardinality(watched \ Foreign),
           NEW i \in Instances, inst[i].pc # "off"
    PROVE  /\ IsInjective(candidates) /\ candidates[Len(candidates)] = 0
           /\ Len(candidates) > 0
           /\ inst[i].place < Len(candidates)
<1> DEFINE n == Len(candidates)
           m == n - 1
<1>0. /\ TypeOK /\ ReadOK /\ ReaderOK("router") /\ ReaderOK("service") /\ setting \in Settings
  BY DEF PortInv, ReadOK, Readers
<1>1. ~Bad("router") /\ watched = MeantBy(spec)
  BY <1>0 DEF ReaderOK, Progress, EndsOpen, Program, watched
<1>2. 0 \notin MeantBy(spec)
  BY <1>0, <1>1, RouterHasNoZero
<1>3. /\ IsInjective(candidates) /\ n > 0 /\ candidates[n] = 0
      /\ ToSet(candidates) = MeantBy(spec) \cup {0}
  BY <1>0, <1>2 DEF ReaderOK, Unrepeated, Progress, EndsOpen, candidates
<1>4. n \in Nat /\ m \in Nat /\ m \in 0..n /\ DOMAIN candidates = 1..n
      /\ 1..n = (1..m) \cup {n} /\ n \notin 1..m
  BY <1>0, <1>3, ListOfNumbers
<1>5. watched = {candidates[k] : k \in 1..m}
  <2> HIDE DEF m, n
  <2>1. watched = {candidates[k] : k \in 1..n} \ {candidates[n]}
    BY <1>1, <1>2, <1>3, <1>4 DEF ToSet
  <2>2. \A k \in 1..m : candidates[k] # candidates[n]
    BY <1>3, <1>4 DEF IsInjective
  <2> QED
    BY <1>4, <2>1, <2>2
<1>6. Cardinality(watched \ Foreign) <= Cardinality(FreePlaces(m))
  BY <1>0, <1>4, <1>5, FreePorts
<1>7. i \notin Ahead(m)
  <2> SUFFICES ASSUME i \in Ahead(m)
               PROVE  FALSE
    OBVIOUS
  <2>1. Cardinality(Ahead(m)) + Cardinality(FreePlaces(m)) <= Cardinality(Instances)
    BY <1>3, <1>4 DEF Counted
  <2>2. /\ Cardinality(Ahead(m)) \in Nat /\ Cardinality(Instances) \in Nat
        /\ Cardinality(FreePlaces(m)) \in Nat /\ IsFiniteSet(Ahead(m))
    BY <1>4, Finite
  <2>3. Cardinality(Ahead(m)) # 0
    BY <2>2, FS_EmptySet
  <2>4. IsFiniteSet(FreePlaces(m)) /\ FreePlaces(m) \in SUBSET (1..m)
    BY <1>4, Finite DEF FreePlaces
  <2>5. Cardinality(watched \ Foreign) \in Nat
    <3>1. watched \ Foreign = {candidates[k] : k \in FreePlaces(m)}
      BY <1>5 DEF FreePlaces
    <3> DEFINE f == [k \in FreePlaces(m) |-> candidates[k]]
    <3>2. f \in Surjection(FreePlaces(m), watched \ Foreign)
      BY <3>1 DEF Surjection
    <3> QED
      BY <2>4, <3>2, FS_Surjection, FS_CardinalityType
  <2> HIDE DEF m, n
  <2> QED
    BY <1>6, <2>1, <2>2, <2>3, <2>5
<1>8. inst[i].place \in Nat
  BY <1>0 DEF TypeOK
<1> QED
  BY <1>3, <1>4, <1>7, <1>8 DEF Ahead

(* The router watches the port of every instance that serves: always with  *)
(* PORT_POOL and in C#, and with PORT while the ports it names suffice.    *)
THEOREM DiscoverableHolds == Spec => []Discoverable
<1>1. PortInv /\ Counted => Discoverable
  <2> SUFFICES ASSUME PortInv, Counted, reader["router"].pc = "done",
                      \/ setting.service = "csharp"
                      \/ setting.fromPool
                      \/ Cardinality(Instances) <= Cardinality(watched \ Foreign),
                      NEW i \in Instances, inst[i].pc = "serving"
               PROVE  PortOf(i) \in watched
    BY DEF Discoverable
  <2> DEFINE k == inst[i].place
  <2>0. /\ TypeOK /\ ReadOK /\ ReaderOK("router") /\ ReaderOK("service") /\ setting \in Settings
    BY DEF PortInv, ReadOK, Readers
  <2>1. /\ k \in DOMAIN candidates /\ k \in Nat /\ Over("service")
        /\ DOMAIN candidates = 1..Len(candidates) /\ Len(candidates) \in Nat
    BY <2>0, ListOfNumbers DEF TypeOK, Readers
  <2>2. reader["service"].pc = "done"
    <3>1. reader["service"].pc = "refused" => candidates = <<>>
      BY <2>0 DEF ReaderOK, Progress, candidates
    <3> QED
      BY <2>1, <3>1 DEF Over
  <2>3. watched = MeantBy(spec)
    BY <2>0 DEF ReaderOK, Progress, EndsOpen, Program, watched
  <2>4. ToSet(candidates) = MeantBy(spec) \cup (IF EndsOpen("service") THEN {0} ELSE {})
    BY <2>0, <2>2 DEF ReaderOK, Progress, candidates
  <2>5. PortOf(i) \in ToSet(candidates)
    BY <2>1 DEF ToSet, PortOf
  <2>6. CASE ~EndsOpen("service")
    BY <2>3, <2>4, <2>5, <2>6
  <2>7. CASE EndsOpen("service")
    <3>1. Cardinality(Instances) <= Cardinality(watched \ Foreign)
      BY <2>7 DEF EndsOpen, Program
    <3>2. /\ IsInjective(candidates) /\ candidates[Len(candidates)] = 0
          /\ Len(candidates) > 0 /\ k < Len(candidates)
      BY <2>2, <2>7, <3>1, NobodyAtLast
    <3>3. candidates[k] # 0
      BY <2>1, <3>2 DEF IsInjective
    <3> QED
      BY <2>3, <2>4, <2>5, <2>7, <3>3 DEF PortOf
  <2> QED
    BY <2>6, <2>7
<1> QED
  BY <1>1, PortInvHolds, CountedHolds, PTL
=============================================================================
