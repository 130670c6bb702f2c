------------------------- MODULE NumberedQueueProofs -------------------------
(***************************************************************************)
(* The SPI command queue implements the command pool, for every length of  *)
(* the queue, every set of commands and every bound.                       *)
(***************************************************************************)
EXTENDS NumberedQueue, FiniteSetTheorems, TLAPS

(* No number is in two slots, and none is larger than what was sent.       *)
Distinct ==
  \A i, j \in Slots : slots[i] # Empty /\ slots[i] = slots[j] => i = j
Numbered ==
  /\ \A i \in Slots : slots[i] # Empty => slots[i].id <= sent
  /\ \A e \in executed : e.id <= sent

(* A slot holds an executed command only until it is freed.                *)
Pending ==
  \A i \in Slots : slots[i] # Empty /\ slots[i] \in executed
                     => pc = "release" /\ i = msgIndex
Done == pc = "release" => slots[msgIndex] \in executed

IInv == TypeOK /\ Distinct /\ Numbered /\ Pending /\ Done

USE DEF queueVars, main, history, vars

-----------------------------------------------------------------------------

LEMMA InitInv == Init => IInv
<1> SUFFICES ASSUME Init PROVE IInv
  OBVIOUS
<1>1. /\ slots = [i \in Slots |-> Empty]
      /\ sent = 0 /\ executed = {} /\ refused = {} /\ pc = "loop"
      /\ msgIndex = 0 /\ prevIndex = 0 /\ scan = 0 /\ muxOn = FALSE
      /\ 0 \in Slots /\ 0 \in 0..MaxSent
  BY LengthAssumption, EntriesAssumption DEF Init, QueueInit, Slots
<1>2. QueueTypeOK
  BY <1>1 DEF QueueTypeOK, Steps
<1>3. TypeOK
  BY <1>1, <1>2 DEF TypeOK
<1>4. Distinct /\ Numbered /\ Pending /\ Done
  BY <1>1 DEF Distinct, Numbered, Pending, Done
<1>5. QED
  BY <1>3, <1>4 DEF IInv

LEMMA EntryFacts ==
  ASSUME IInv
  PROVE  /\ Entries = [id : 1..MaxSent, msg : Messages]
         /\ \A i \in Slots : slots[i] # Empty => slots[i] \in Entries
         /\ \A e \in Entries : e # Empty /\ e.id \in Nat
         /\ 0 \in Slots
  BY LengthAssumption, EntriesAssumption, EmptyAssumption
     DEF IInv, TypeOK, QueueTypeOK, Slots

LEMMA AcceptInv ==
  ASSUME IInv, sent < MaxSent, NEW m \in Messages, QueueMsg(m)
  PROVE  IInv'
<1> DEFINE e == [id |-> sent + 1, msg |-> m]
<1>1. sent \in Nat /\ MaxSent \in Nat /\ sent + 1 \in 1..MaxSent
  BY EntriesAssumption DEF IInv, TypeOK
<1>2. e \in Entries /\ e # Empty /\ e.id = sent + 1
  BY <1>1, EntriesAssumption, EmptyAssumption
<1>3. PICK i \in Slots : /\ slots[i] = Empty
                         /\ slots' = [slots EXCEPT ![i] = e]
                         /\ sent' = sent + 1
                         /\ UNCHANGED <<main, executed, refused>>
  BY DEF QueueMsg, Accept, IsFirstFree, Occupied
<1>4. \A k \in Slots : slots'[k] = IF k = i THEN e ELSE slots[k]
  BY <1>3 DEF IInv, TypeOK, QueueTypeOK
<1>5. \A k \in Slots : slots[k] # Empty => slots[k] # e
  BY <1>1, <1>2 DEF IInv, Numbered
<1>6. e \notin executed
  BY <1>1, <1>2 DEF IInv, Numbered
<1>7. TypeOK'
  <2>1. slots' \in [Slots -> Entries \cup {Empty}]
    BY <1>2, <1>3 DEF IInv, TypeOK, QueueTypeOK
  <2>2. sent' \in 0..MaxSent /\ refused' \subseteq 1..sent'
    BY <1>1, <1>3 DEF IInv, TypeOK
  <2>3. pc' \in {"exec", "release"} => slots'[msgIndex'] # Empty
    BY <1>2, <1>3, <1>4 DEF IInv, TypeOK, QueueTypeOK, Current
  <2>4. QED
    BY <2>1, <2>2, <2>3, <1>3 DEF IInv, TypeOK, QueueTypeOK, Current
<1>8. Distinct'
  BY <1>4, <1>5 DEF IInv, Distinct
<1>9. Numbered'
  BY <1>1, <1>2, <1>3, <1>4, EntryFacts DEF IInv, Numbered, TypeOK
<1>10. Pending'
  BY <1>3, <1>4, <1>6 DEF IInv, Pending
<1>11. Done'
  BY <1>3, <1>4 DEF IInv, Done, TypeOK, QueueTypeOK, Current
<1>12. QED
  BY <1>7, <1>8, <1>9, <1>10, <1>11 DEF IInv

LEMMA FullInv ==
  ASSUME IInv, sent < MaxSent, QueueFull
  PROVE  IInv'
<1>1. /\ UNCHANGED <<slots, main, executed>>
      /\ sent' = sent + 1 /\ refused' = refused \cup {sent + 1}
      /\ sent \in Nat /\ MaxSent \in Nat
  BY EntriesAssumption DEF QueueFull, Drop, IInv, TypeOK
<1>2. TypeOK'
  BY <1>1 DEF IInv, TypeOK, QueueTypeOK, Current
<1>3. Numbered'
  BY <1>1, EntryFacts DEF IInv, Numbered, TypeOK
<1>4. Distinct' /\ Pending' /\ Done'
  BY <1>1 DEF IInv, Distinct, Pending, Done
<1>5. QED
  BY <1>2, <1>3, <1>4 DEF IInv

(* The steps that choose a slot leave all slots as they are.               *)
LEMMA SelectInv ==
  ASSUME IInv, Select, UNCHANGED history
  PROVE  IInv' /\ UNCHANGED slots
<1>1. UNCHANGED <<slots, history>> /\ pc # "release" /\ pc' # "release"
  BY DEF Select, Poll, SelectNext, Scan, Run
<1>2. TypeOK'
  <2>1. msgIndex' \in Slots /\ prevIndex' \in Slots /\ scan' \in Slots
    BY LengthAssumption
       DEF Select, Poll, SelectNext, Scan, Run, IInv, TypeOK, QueueTypeOK,
           Slots, Occupied
  <2>2. muxOn' \in BOOLEAN /\ pc' \in Steps
    BY DEF Select, Poll, SelectNext, Scan, Run, IInv, TypeOK, QueueTypeOK,
           Steps
  <2>3. pc' = "exec" => Current' # Empty
    BY DEF Select, Poll, SelectNext, Scan, Run, Current
  <2>4. QED
    BY <1>1, <2>1, <2>2, <2>3 DEF IInv, TypeOK, QueueTypeOK
<1>3. Distinct' /\ Numbered'
  BY <1>1 DEF IInv, Distinct, Numbered
<1>4. Pending' /\ Done'
  BY <1>1 DEF IInv, Pending, Done
<1>5. QED
  BY <1>1, <1>2, <1>3, <1>4 DEF IInv

LEMMA RunInv ==
  ASSUME IInv, RunCommand
  PROVE  IInv'
<1>1. /\ pc = "exec" /\ pc' = "release"
      /\ UNCHANGED <<slots, msgIndex, prevIndex, scan, muxOn, sent, refused>>
      /\ executed' = executed \cup {slots[msgIndex]}
      /\ msgIndex \in Slots
      /\ slots[msgIndex] # Empty
  BY DEF RunCommand, Execute, Current, IInv, TypeOK, QueueTypeOK
<1>2. slots[msgIndex] \in Entries /\ slots[msgIndex].id <= sent
  BY <1>1 DEF IInv, TypeOK, QueueTypeOK, Numbered
<1>3. TypeOK'
  BY <1>1, <1>2 DEF IInv, TypeOK, QueueTypeOK, Current, Steps
<1>4. Distinct' /\ Numbered'
  BY <1>1, <1>2 DEF IInv, Distinct, Numbered
<1>5. Pending'
  BY <1>1 DEF IInv, Pending, Distinct
<1>6. Done'
  BY <1>1 DEF Done
<1>7. QED
  BY <1>3, <1>4, <1>5, <1>6 DEF IInv

LEMMA ReleaseInv ==
  ASSUME IInv, Release, UNCHANGED history
  PROVE  IInv'
<1>1. /\ pc = "release" /\ pc' = "loop"
      /\ slots' = [slots EXCEPT ![msgIndex] = Empty]
      /\ UNCHANGED <<msgIndex, prevIndex, scan, muxOn, history>>
      /\ msgIndex \in Slots
  BY DEF Release, IInv, TypeOK, QueueTypeOK
<1>2. \A k \in Slots : slots'[k] = IF k = msgIndex THEN Empty ELSE slots[k]
  BY <1>1 DEF IInv, TypeOK, QueueTypeOK
<1>3. TypeOK'
  BY <1>1 DEF IInv, TypeOK, QueueTypeOK, Steps
<1>4. Distinct' /\ Numbered'
  BY <1>1, <1>2 DEF IInv, Distinct, Numbered
<1>5. Pending' /\ Done'
  BY <1>1, <1>2 DEF IInv, Pending, Done
<1>6. QED
  BY <1>3, <1>4, <1>5 DEF IInv

LEMMA RestartInv ==
  ASSUME IInv, Restart
  PROVE  IInv'
<1>1. /\ \A k \in Slots : slots'[k] = Empty
      /\ slots' \in [Slots -> Entries \cup {Empty}]
      /\ pc' = "loop" /\ UNCHANGED history
      /\ msgIndex' = 0 /\ prevIndex' = 0 /\ scan' = 0 /\ muxOn' = FALSE
  BY DEF Restart, Setup
<1>2. TypeOK'
  BY <1>1, EntryFacts DEF IInv, TypeOK, QueueTypeOK, Steps
<1>3. Distinct' /\ Numbered' /\ Pending' /\ Done'
  BY <1>1 DEF IInv, Distinct, Numbered, Pending, Done
<1>4. QED
  BY <1>2, <1>3 DEF IInv

LEMMA NextInv == IInv /\ [Next]_vars => IInv'
<1> SUFFICES ASSUME IInv, [Next]_vars PROVE IInv'
  OBVIOUS
<1>1. CASE sent < MaxSent /\ \E m \in Messages : QueueMsg(m)
  BY <1>1, AcceptInv
<1>2. CASE sent < MaxSent /\ QueueFull
  BY <1>2, FullInv
<1>3. CASE Serve
  BY <1>3, SelectInv, ReleaseInv DEF Serve
<1>4. CASE RunCommand
  BY <1>4, RunInv
<1>5. CASE Restart
  BY <1>5, RestartInv
<1>6. CASE UNCHANGED vars
  BY <1>6 DEF IInv, TypeOK, QueueTypeOK, Current, Distinct, Numbered, Pending,
              Done
<1>7. QED
  BY <1>1, <1>2, <1>3, <1>4, <1>5, <1>6 DEF Next

-----------------------------------------------------------------------------
(* How many commands wait.                                                 *)

LEMMA FiniteSlots == IsFiniteSet(Slots) /\ Cardinality(Slots) = Length
  BY LengthAssumption, FS_Interval DEF Slots

LEMMA FiniteOccupied ==
  /\ IsFiniteSet(Occupied)
  /\ Cardinality(Occupied) \in Nat
  /\ Cardinality(Occupied) <= Length
  /\ Cardinality(Occupied) = Length => Occupied = Slots
<1>1. Occupied \in SUBSET Slots
  BY DEF Occupied
<1>2. QED
  BY <1>1, FiniteSlots, FS_Subset, FS_CardinalityType

(* Every waiting command has a slot of its own.                            *)
LEMMA OneSlotEach ==
  ASSUME IInv
  PROVE  Cardinality(Waiting) = Cardinality(Occupied)
<1> DEFINE f == [i \in Occupied |-> slots[i]]
<1>1. f \in Surjection(Occupied, Waiting)
  BY DEF Surjection, Waiting
<1>2. f \in Injection(Occupied, Waiting)
  BY DEF Injection, IsInjective, Waiting, IInv, Distinct, Occupied
<1>3. QED
  BY <1>1, <1>2, FiniteOccupied, FS_Surjection

-----------------------------------------------------------------------------
(* Every step of the queue is a step of the pool or none.                  *)

(* The pool counts as the queue does.                                       *)
LEMMA PoolCardinality == \A S : Pool!Cardinality(S) = Cardinality(S)
  BY DEF Cardinality, Pool!Cardinality, IsFiniteSet, Pool!IsFiniteSet

LEMMA InitPool == Init => Pool!Init
  BY DEF Init, QueueInit, Pool!Init, Waiting, Occupied, Slots

LEMMA AcceptTakes ==
  ASSUME IInv, sent < MaxSent, NEW m \in Messages, QueueMsg(m)
  PROVE  Pool!Take(m)
<1> DEFINE e == [id |-> sent + 1, msg |-> m]
<1>1. PICK i \in Slots : /\ slots[i] = Empty
                         /\ slots' = [slots EXCEPT ![i] = e]
                         /\ sent' = sent + 1
                         /\ UNCHANGED <<main, executed, refused>>
  BY DEF QueueMsg, Accept, IsFirstFree, Occupied
<1>2. Cardinality(Waiting) < Length
  <2>1. Occupied # Slots
    BY <1>1 DEF Occupied
  <2>2. QED
    BY <2>1, FiniteOccupied, OneSlotEach, LengthAssumption
<1>3. \A k \in Slots : slots'[k] = IF k = i THEN e ELSE slots[k]
  BY <1>1 DEF IInv, TypeOK, QueueTypeOK
<1>4. e # Empty
  <2>1. sent + 1 \in 1..MaxSent
    BY EntriesAssumption DEF IInv, TypeOK
  <2>2. QED
    BY <2>1, EntriesAssumption, EmptyAssumption
<1>5. Waiting' = Waiting \cup {e}
  BY <1>1, <1>3, <1>4 DEF Waiting, Occupied
<1>6. QED
  BY <1>1, <1>2, <1>5, PoolCardinality DEF Pool!Take

LEMMA FullRefuses ==
  ASSUME IInv, QueueFull
  PROVE  Pool!Refuse
<1>1. Cardinality(Waiting) = Length
  BY OneSlotEach, FiniteSlots DEF QueueFull, Drop, Full
<1>2. Waiting' = Waiting
  BY DEF QueueFull, Drop, Waiting, Occupied
<1>3. QED
  BY <1>1, <1>2, PoolCardinality DEF Pool!Refuse, QueueFull, Drop

LEMMA RunExecutes ==
  ASSUME IInv, RunCommand
  PROVE  \E e \in Waiting : Pool!Execute(e)
<1>1. /\ pc = "exec" /\ UNCHANGED <<slots, sent, refused>>
      /\ executed' = executed \cup {slots[msgIndex]}
      /\ msgIndex \in Slots /\ slots[msgIndex] # Empty
  BY DEF RunCommand, Execute, Current, IInv, TypeOK, QueueTypeOK
<1>2. slots[msgIndex] \in Waiting \ executed
  BY <1>1 DEF Waiting, Occupied, IInv, Pending
<1>3. Waiting' = Waiting
  BY <1>1 DEF Waiting, Occupied
<1>4. QED
  BY <1>1, <1>2, <1>3 DEF Pool!Execute

LEMMA ReleaseLeaves ==
  ASSUME IInv, Release, UNCHANGED history
  PROVE  \E e \in Waiting : Pool!Leave(e)
<1> DEFINE e == slots[msgIndex]
<1>1. /\ pc = "release" /\ msgIndex \in Slots
      /\ slots' = [slots EXCEPT ![msgIndex] = Empty]
      /\ e # Empty /\ e \in executed
  BY DEF Release, IInv, TypeOK, QueueTypeOK, Done, Current
<1>2. \A k \in Slots : slots'[k] = IF k = msgIndex THEN Empty ELSE slots[k]
  BY <1>1 DEF IInv, TypeOK, QueueTypeOK
<1>3. \A k \in Slots : k # msgIndex => slots[k] # e
  BY <1>1 DEF IInv, Distinct
<1>4. Waiting' = Waiting \ {e}
  BY <1>2, <1>3 DEF Waiting, Occupied
<1>5. e \in Waiting
  BY <1>1 DEF Waiting, Occupied
<1>6. QED
  BY <1>1, <1>4, <1>5 DEF Pool!Leave

LEMMA RestartEmpties ==
  ASSUME Restart
  PROVE  Pool!Restart
<1>1. \A k \in Slots : slots'[k] = Empty
  BY DEF Restart, Setup
<1>2. Waiting' = {}
  BY <1>1 DEF Waiting, Occupied
<1>3. QED
  BY <1>2 DEF Restart, Pool!Restart

LEMMA NextPool == IInv /\ [Next]_vars => [Pool!Next]_(Pool!vars)
<1> SUFFICES ASSUME IInv, [Next]_vars PROVE [Pool!Next]_(Pool!vars)
  OBVIOUS
<1>1. CASE sent < MaxSent /\ \E m \in Messages : QueueMsg(m)
  BY <1>1, AcceptTakes DEF Pool!Next
<1>2. CASE sent < MaxSent /\ QueueFull
  BY <1>2, FullRefuses DEF Pool!Next
<1>3. CASE Select /\ UNCHANGED history
  <2>1. UNCHANGED slots
    BY <1>3, SelectInv
  <2>2. Waiting' = Waiting
    BY <2>1 DEF Waiting, Occupied
  <2>3. QED
    BY <1>3, <2>2 DEF Pool!vars
<1>4. CASE Release /\ UNCHANGED history
  BY <1>4, ReleaseLeaves DEF Pool!Next
<1>5. CASE RunCommand
  BY <1>5, RunExecutes DEF Pool!Next
<1>6. CASE Restart
  BY <1>6, RestartEmpties DEF Pool!Next
<1>7. CASE UNCHANGED vars
  <2>1. Waiting' = Waiting
    BY <1>7 DEF Waiting, Occupied
  <2>2. QED
    BY <1>7, <2>1 DEF Pool!vars
<1>8. QED
  BY <1>1, <1>2, <1>3, <1>4, <1>5, <1>6, <1>7 DEF Next, Serve

-----------------------------------------------------------------------------

(* The queue is always type correct: its indexes stay inside the array and *)
(* the command that runs is in the slot it runs from (spi_queue_process).  *)
THEOREM QueueTypeCorrect == Spec => []TypeOK
<1>1. Init => IInv
  BY InitInv
<1>2. IInv /\ [Next]_vars => IInv'
  BY NextInv
<1>3. IInv => TypeOK
  BY DEF IInv
<1>4. QED
  BY <1>1, <1>2, <1>3, PTL DEF Spec

(* The queue implements the pool: spi_queue_msg_param and                  *)
(* spi_queue_process lose no command, run none twice, and turn one away    *)
(* only when SPI_MSG_QUEUE_LENGTH commands wait.                           *)
THEOREM QueueIsPool == Spec => PoolSpec
<1>1. Init => IInv /\ Pool!Init
  BY InitInv, InitPool
<1>2. IInv /\ [Next]_vars => IInv'
  BY NextInv
<1>3. IInv /\ [Next]_vars => [Pool!Next]_(Pool!vars)
  BY NextPool
<1>4. QED
  BY <1>1, <1>2, <1>3, PTL DEF Spec, PoolSpec, Pool!Spec

=============================================================================
