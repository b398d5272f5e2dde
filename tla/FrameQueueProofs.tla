--------------------------- MODULE FrameQueueProofs ---------------------------
(***************************************************************************)
(* Proofs about FrameQueue for every capacity, every set of consumers and  *)
(* every number of frames.                                                 *)
(***************************************************************************)
EXTENDS FrameQueue, FiniteSetTheorems, TLAPS

-----------------------------------------------------------------------------
(* The inductive invariant                                                 *)

\* Types; a copy carries a number that was offered, and only a consumer that
\* got a frame has one.
QueueShape ==
    /\ dropped \in Nat /\ closed \in BOOLEAN /\ destroyed \in BOOLEAN
    /\ offered \in 0..MaxPush /\ copies \subseteq 1..offered
    /\ pc \in [Consumers -> {"idle", "asleep", "woken", "got", "done"}]
    /\ out \in [Consumers -> Frame \cup {Empty}]
    /\ \A c \in Consumers : pc[c] = "got" <=> out[c] # Empty

QInv ==
    /\ QueueShape
    /\ RingConsistent
    /\ EveryFrameHasOneOwner
    /\ NoLostWakeup

-----------------------------------------------------------------------------
(* Lemmas about the ring                                                   *)

\* The slot k after slot h.
At(h, k) == (h + k) % Capacity

\* How far slot i is behind the oldest frame.
Distance(i, h) == IF i >= h THEN i - h ELSE i + Capacity - h

\* The slot after another one.
LEMMA AfterValues ==
    ASSUME NEW i \in Slot
    PROVE  After(i) = IF i + 1 = Capacity THEN 0 ELSE i + 1
BY QueueAssumption DEF Slot, After

\* k slots after another one.
LEMMA SlotValues ==
    ASSUME NEW h \in Slot, NEW k \in 0..Capacity
    PROVE  /\ At(h, k) = IF h + k < Capacity THEN h + k ELSE h + k - Capacity
           /\ At(h, k) \in Slot
BY QueueAssumption DEF Slot, At

\* A slot is occupied when it is less than count behind the oldest frame.
LEMMA OccupiedValues ==
    ASSUME NEW h \in Slot, NEW n \in 0..Capacity, NEW i \in Slot
    PROVE  i \in {At(h, k) : k \in 0..(n - 1)} <=> Distance(i, h) < n
<1>1. Distance(i, h) \in 0..(Capacity - 1)
  BY QueueAssumption DEF Slot, Distance
<1>2. At(h, Distance(i, h)) = i
  <2>1. At(h, Distance(i, h)) = IF h + Distance(i, h) < Capacity
                                THEN h + Distance(i, h)
                                ELSE h + Distance(i, h) - Capacity
    BY <1>1, SlotValues, QueueAssumption
  <2>2. QED
    BY <2>1, QueueAssumption DEF Slot, Distance
<1>3. ASSUME NEW k \in 0..(n - 1), i = At(h, k) PROVE Distance(i, h) = k
  <2>1. k \in 0..Capacity /\ k < Capacity
    BY QueueAssumption
  <2>2. i = IF h + k < Capacity THEN h + k ELSE h + k - Capacity
    BY <1>3, <2>1, SlotValues
  <2>3. QED
    BY <2>1, <2>2, QueueAssumption DEF Slot, Distance
<1>4. ASSUME Distance(i, h) < n PROVE Distance(i, h) \in 0..(n - 1)
  BY <1>1, <1>4
<1>5. QED
  BY <1>1, <1>2, <1>3, <1>4

-----------------------------------------------------------------------------
(* Every step keeps the ring consistent                                    *)

\* A frame enters behind the newest.
LEMMA PushRing == QInv /\ Push => RingConsistent'
<1> SUFFICES ASSUME QInv, Push PROVE RingConsistent'
  OBVIOUS
<1> USE QueueAssumption DEF QInv, QueueShape, RingConsistent
<1>1. /\ head' = head /\ count' = count + 1 /\ count < Capacity
      /\ tail' = After(tail) /\ offered' \in Frame
      /\ items' = [items EXCEPT ![tail] = offered']
  BY DEF Push, Frame
<1>2. tail = At(head, count) /\ tail' \in Slot
  BY <1>1, AfterValues DEF SlotOf, At, Slot
<1>3. tail' = At(head', count') /\ Distance(tail, head) = count
  <2>1. tail = IF head + count < Capacity THEN head + count
                                          ELSE head + count - Capacity
    BY <1>2, SlotValues
  <2>2. At(head, count + 1) = IF head + (count + 1) < Capacity
                              THEN head + (count + 1)
                              ELSE head + (count + 1) - Capacity
    <3>1. count + 1 \in 0..Capacity
      BY <1>1
    <3>2. QED
      BY <3>1, SlotValues
  <2>3. tail' = IF tail + 1 = Capacity THEN 0 ELSE tail + 1
    BY <1>1, AfterValues
  <2>4. QED
    BY <1>1, <2>1, <2>2, <2>3 DEF Distance, Slot
<1>4. ASSUME NEW i \in Slot
      PROVE  items'[i] # Empty <=> Distance(i, head') < count'
  <2>1. items[i] # Empty <=> Distance(i, head) < count
    BY OccupiedValues DEF Occupied, SlotOf, At
  <2>2. CASE i = tail
    BY <1>1, <1>3, <2>2 DEF Frame
  <2>3. CASE i # tail
    <3>1. Distance(i, head) # count /\ Distance(i, head) \in Nat
      BY <1>2, <1>3, <2>3 DEF Distance, Slot
    <3>2. QED
      BY <1>1, <2>1, <2>3, <3>1
  <2>4. QED
    BY <2>2, <2>3
<1>5. \A i \in Slot : items'[i] # Empty <=> i \in Occupied'
  <2>1. Occupied' = {At(head', k) : k \in 0..(count' - 1)}
    BY DEF Occupied, SlotOf, At
  <2>2. head' \in Slot /\ count' \in 0..Capacity
    BY <1>1
  <2>3. QED
    BY <1>4, <2>1, <2>2, OccupiedValues
<1>6. QED
  BY <1>1, <1>2, <1>3, <1>5 DEF SlotOf, At

\* A frame takes the slot of the oldest in a full ring.
LEMMA PushDropsRing == QInv /\ PushDropsOldest => RingConsistent'
<1> SUFFICES ASSUME QInv, PushDropsOldest PROVE RingConsistent'
  OBVIOUS
<1> USE QueueAssumption DEF QInv, QueueShape, RingConsistent
<1>1. /\ head' = After(head) /\ count' = Capacity /\ count = Capacity
      /\ tail' = After(tail) /\ offered' \in Frame
      /\ items' = [items EXCEPT ![head] = Empty, ![tail] = offered']
  BY DEF PushDropsOldest, Frame
<1>2. tail = head /\ head' \in Slot
  <2>1. At(head, Capacity) = IF head + Capacity < Capacity THEN head + Capacity
                             ELSE head + Capacity - Capacity
    BY SlotValues
  <2>2. tail = head
    BY <1>1, <2>1 DEF SlotOf, At, Slot
  <2>3. QED
    BY <1>1, <2>2, AfterValues DEF Slot
<1>3. tail' = At(head', count')
  BY <1>1, <1>2, SlotValues DEF Slot
<1>4. ASSUME NEW i \in Slot
      PROVE  items'[i] # Empty /\ Distance(i, head') < count'
  <2>1. Distance(i, head) < Capacity /\ Distance(i, head') < Capacity
    <3>1. ASSUME NEW h \in Slot PROVE Distance(i, h) < Capacity
      BY DEF Distance, Slot
    <3>2. QED
      BY <1>2, <3>1
  <2>2. items[i] # Empty
    BY <1>1, <2>1, OccupiedValues DEF Occupied, SlotOf, At
  <2>3. QED
    BY <1>1, <1>2, <2>1, <2>2 DEF Frame
<1>5. \A i \in Slot : items'[i] # Empty <=> i \in Occupied'
  BY <1>1, <1>2, <1>4, OccupiedValues DEF Occupied, SlotOf, At
<1>6. QED
  BY <1>1, <1>2, <1>3, <1>5 DEF SlotOf, At

\* The oldest frame leaves.
LEMMA LeaveRing ==
    ASSUME QInv, count > 0, head' = After(head), count' = count - 1,
           tail' = tail, items' = [items EXCEPT ![head] = Empty]
    PROVE  RingConsistent'
<1> USE QueueAssumption DEF QInv, QueueShape, RingConsistent
<1>1. head' \in Slot /\ count' \in 0..Capacity
  BY AfterValues DEF Slot
<1>2. tail' = At(head', count')
  <2>1. tail = IF head + count < Capacity THEN head + count
                                          ELSE head + count - Capacity
    BY SlotValues DEF SlotOf, At
  <2>2. At(head', count') = IF head' + count' < Capacity THEN head' + count'
                            ELSE head' + count' - Capacity
    BY <1>1, SlotValues
  <2>3. head' = IF head + 1 = Capacity THEN 0 ELSE head + 1
    BY AfterValues
  <2>4. QED
    BY <2>1, <2>2, <2>3 DEF Slot
<1>3. ASSUME NEW i \in Slot
      PROVE  items'[i] # Empty <=> Distance(i, head') < count'
  <2>1. items[i] # Empty <=> Distance(i, head) < count
    BY OccupiedValues DEF Occupied, SlotOf, At
  <2>2. CASE i = head
    <3>1. Distance(i, head') = Capacity - 1
      BY <2>2, AfterValues DEF Distance, Slot
    <3>2. QED
      BY <2>2, <3>1
  <2>3. CASE i # head
    <3>1. Distance(i, head') = Distance(i, head) - 1
      BY <2>3, AfterValues DEF Distance, Slot
    <3>2. Distance(i, head) \in Nat
      BY DEF Distance, Slot
    <3>3. QED
      BY <2>1, <2>3, <3>1, <3>2
  <2>4. QED
    BY <2>2, <2>3
<1>4. \A i \in Slot : items'[i] # Empty <=> i \in Occupied'
  BY <1>1, <1>3, OccupiedValues DEF Occupied, SlotOf, At
<1>5. QED
  BY <1>1, <1>2, <1>4 DEF SlotOf, At

\* The ring after every step.
LEMMA RingStep == QInv /\ [Next]_vars => RingConsistent'
<1> SUFFICES ASSUME QInv, [Next]_vars PROVE RingConsistent'
  OBVIOUS
<1>1. CASE Push
  BY <1>1, PushRing
<1>2. CASE PushDropsOldest
  BY <1>2, PushDropsRing
<1>3. CASE PushFails
  <2>1. CASE count = Capacity
    <3>1. count > 0
      BY <2>1, QueueAssumption
    <3>2. QED
      BY <1>3, <2>1, <3>1, LeaveRing DEF PushFails
  <2>2. CASE count # Capacity
    BY <1>3, <2>2 DEF PushFails, QInv, RingConsistent, Occupied, SlotOf
  <2>3. QED
    BY <2>1, <2>2
<1>4. ASSUME NEW c \in Consumers, PopTakes(c) PROVE RingConsistent'
  BY <1>4, LeaveRing DEF PopTakes
<1>5. CASE Destroy
  <2>1. /\ head' = 0 /\ tail' = 0 /\ count' = 0
        /\ items' = [i \in Slot |-> Empty]
    BY <1>5 DEF Destroy
  <2>2. 0 \in Slot /\ SlotOf(count)' = 0 /\ Occupied' = {}
    BY <2>1, QueueAssumption DEF Slot, SlotOf, Occupied
  <2>3. QED
    BY <2>1, <2>2, QueueAssumption DEF RingConsistent
<1>6. CASE UNCHANGED ringVars
  BY <1>6 DEF ringVars, QInv, RingConsistent, Occupied, SlotOf
<1>7. QED
  BY <1>1, <1>2, <1>3, <1>4, <1>5, <1>6
     DEF Next, vars, Close, PopWaits, PopEnds, WakesSpuriously, Release

-----------------------------------------------------------------------------
(* Every step keeps the frames owned                                       *)

\* pthread_cond_signal changes only who sleeps.
LEMMA SignalShape ==
    ASSUME QueueShape, Signal
    PROVE  /\ pc' \in [Consumers -> {"idle", "asleep", "woken", "got", "done"}]
           /\ \A c \in Consumers : pc'[c] = "got" <=> pc[c] = "got"
BY DEF QueueShape, Signal, Asleep

\* The copies after one more frame was offered.
LEMMA OneMoreOffered ==
    ASSUME NEW n \in Nat, NEW S, S \subseteq 1..n,
           NEW T, T \subseteq S \cup {n + 1}
    PROVE  T \subseteq 1..(n + 1)
OBVIOUS

\* The types after every step.
LEMMA ShapeStep == QInv /\ [Next]_vars => QueueShape'
<1> SUFFICES ASSUME QInv, [Next]_vars PROVE QueueShape'
  OBVIOUS
<1> USE QueueAssumption DEF QInv, QueueShape, vars, ringVars, consumerVars, Frame
<1>1. CASE Push
  BY <1>1, SignalShape DEF Push
<1>2. CASE PushDropsOldest
  <2>1. /\ offered' = offered + 1 /\ offered' \in 0..MaxPush
        /\ copies' = (copies \ {items[head]}) \cup {offered'}
        /\ dropped' = dropped + 1 /\ Signal
        /\ UNCHANGED <<closed, destroyed, out>>
    BY <1>2 DEF PushDropsOldest
  <2>2. copies' \subseteq 1..offered'
    <3>1. /\ offered \in Nat /\ copies \subseteq 1..offered
          /\ copies' \subseteq copies \cup {offered + 1}
      BY <2>1
    <3>2. QED
      BY <2>1, <3>1, OneMoreOffered
  <2>3. QED
    BY <2>1, <2>2, SignalShape
<1>3. CASE PushFails
  <2>1. /\ offered' = offered + 1 /\ offered' \in 0..MaxPush
        /\ copies' \subseteq copies /\ dropped' \in Nat
        /\ UNCHANGED <<closed, destroyed, pc, out>>
    BY <1>3 DEF PushFails
  <2>2. copies' \subseteq 1..offered'
    <3>1. /\ offered \in Nat /\ copies \subseteq 1..offered
          /\ copies' \subseteq copies \cup {offered + 1}
      BY <2>1
    <3>2. QED
      BY <2>1, <3>1, OneMoreOffered
  <2>3. QED
    BY <2>1, <2>2
<1>4. CASE Close
  BY <1>4 DEF Close
<1>5. CASE Destroy
  BY <1>5 DEF Destroy
<1>6. ASSUME NEW c \in Consumers, PopTakes(c) PROVE QueueShape'
  <2>1. 0 \in 0..(count - 1) /\ head \in Slot
    BY <1>6 DEF PopTakes, RingConsistent
  <2>2. items[head] \in Frame /\ items[head] # Empty
    <3>1. At(head, 0) = head
      BY <2>1, SlotValues DEF Slot
    <3>2. head \in Occupied
      BY <2>1, <3>1 DEF Occupied, SlotOf, At
    <3>3. QED
      BY <2>1, <3>2 DEF RingConsistent
  <2>3. QED
    BY <1>6, <2>2 DEF PopTakes
<1>7. ASSUME NEW c \in Consumers, PopWaits(c) \/ PopEnds(c) \/ WakesSpuriously(c)
      PROVE  QueueShape'
  BY <1>7 DEF PopWaits, PopEnds, WakesSpuriously
<1>8. ASSUME NEW c \in Consumers, Release(c) PROVE QueueShape'
  BY <1>8 DEF Release
<1>9. CASE UNCHANGED vars
  BY <1>9
<1>10. QED
  BY <1>1, <1>2, <1>3, <1>4, <1>5, <1>6, <1>7, <1>8, <1>9 DEF Next

\* A frame that enters is new.
LEMMA NewFrame ==
    ASSUME QInv, offered' = offered + 1
    PROVE  /\ offered' \notin copies /\ offered' # Empty
           /\ \A i \in Slot : items[i] # offered'
           /\ \A c \in Consumers : out[c] # offered'
<1>1. offered' \notin copies /\ offered' # Empty
  BY QueueAssumption DEF QInv, QueueShape
<1>2. QED
  BY <1>1 DEF QInv, EveryFrameHasOneOwner, Held

\* The owners after every step.
LEMMA OwnerStep == QInv /\ [Next]_vars => EveryFrameHasOneOwner'
<1> SUFFICES ASSUME QInv, [Next]_vars PROVE EveryFrameHasOneOwner'
  OBVIOUS
<1> USE QueueAssumption DEF QInv, QueueShape, EveryFrameHasOneOwner, Held
<1>h. /\ head \in Slot /\ tail \in Slot
      /\ items \in [Slot -> Frame \cup {Empty}]
  BY DEF RingConsistent
<1>1. CASE Push
  <2>1. items[tail] = Empty
    <3>1. count \in 0..Capacity /\ count < Capacity /\ tail = At(head, count)
      BY <1>1 DEF Push, RingConsistent, SlotOf, At
    <3>2. tail = IF head + count < Capacity THEN head + count
                                            ELSE head + count - Capacity
      BY <1>h, <3>1, SlotValues
    <3>3. Distance(tail, head) = count
      BY <1>h, <3>1, <3>2 DEF Distance, Slot
    <3>4. ~(Distance(tail, head) < count)
      BY <3>1, <3>3
    <3>5. tail \notin {At(head, k) : k \in 0..(count - 1)}
      BY <1>h, <3>1, <3>4, OccupiedValues
    <3>6. tail \notin Occupied
      BY <3>5 DEF Occupied, SlotOf, At
    <3>7. QED
      BY <1>h, <3>6 DEF RingConsistent
  <2>2. QED
    BY <1>h, <1>1, <2>1, NewFrame DEF Push
<1>2. CASE PushDropsOldest
  <2>1. /\ items' = [items EXCEPT ![tail] = offered'] /\ head = tail
        /\ copies' = (copies \ {items[tail]}) \cup {offered'}
        /\ out' = out /\ offered' = offered + 1
    <3>1. tail = At(head, Capacity)
      BY <1>2 DEF PushDropsOldest, RingConsistent, SlotOf, At
    <3>2. At(head, Capacity) = IF head + Capacity < Capacity THEN head + Capacity
                               ELSE head + Capacity - Capacity
      BY <1>h, SlotValues
    <3>3. head = tail
      BY <1>h, <3>1, <3>2 DEF Slot
    <3>4. QED
      BY <1>h, <1>2, <3>3 DEF PushDropsOldest
  <2>2. QED
    BY <1>h, <2>1, NewFrame
<1>3. CASE PushFails
  <2>1. CASE count = Capacity
    <3>1. /\ items' = [items EXCEPT ![head] = Empty]
          /\ copies' = copies \ {items[head]} /\ out' = out
      BY <1>3, <2>1 DEF PushFails, consumerVars
    <3>2. QED
      BY <1>h, <3>1
  <2>2. CASE count # Capacity
    BY <1>3, <2>2 DEF PushFails, consumerVars
  <2>3. QED
    BY <2>1, <2>2
<1>4. CASE Destroy
  <2>1. /\ items' = [i \in Slot |-> Empty] /\ out' = out
        /\ copies' = copies \ {items[i] : i \in Slot}
    BY <1>4 DEF Destroy, consumerVars
  <2>2. copies' = Held' \ {Empty}
    BY <1>h, <2>1
  <2>3. QED
    BY <1>h, <2>1, <2>2
<1>5. ASSUME NEW c \in Consumers, PopTakes(c) PROVE EveryFrameHasOneOwner'
  BY <1>h, <1>5 DEF PopTakes
<1>6. ASSUME NEW c \in Consumers, Release(c) PROVE EveryFrameHasOneOwner'
  BY <1>h, <1>6 DEF Release, ringVars
<1>7. CASE UNCHANGED <<items, copies, out>>
  BY <1>7
<1>8. QED
  BY <1>1, <1>2, <1>3, <1>4, <1>5, <1>6, <1>7
     DEF Next, vars, ringVars, consumerVars, Close, PopWaits, PopEnds,
         WakesSpuriously

-----------------------------------------------------------------------------
(* No step loses a wakeup                                                  *)

\* The woken consumers are finitely many, and one more or less counts.
LEMMA WokenFacts ==
    /\ IsFiniteSet(Woken) /\ IsFiniteSet(Woken')
    /\ Cardinality(Woken) \in Nat /\ Cardinality(Woken') \in Nat
    /\ \A c : Woken' = Woken \cup {c} /\ c \notin Woken
              => Cardinality(Woken') = Cardinality(Woken) + 1
    /\ \A c : Woken' = Woken \ {c} /\ c \in Woken
              => Cardinality(Woken') = Cardinality(Woken) - 1
<1>1. IsFiniteSet(Woken) /\ IsFiniteSet(Woken')
  BY QueueAssumption, FS_Subset DEF Woken
<1>2. QED
  BY <1>1, FS_CardinalityType, FS_AddElement, FS_RemoveElement

\* pthread_cond_signal leaves nobody asleep, or one more awake.
LEMMA SignalFacts ==
    ASSUME QInv, Signal
    PROVE  \/ Asleep' = {}
           \/ /\ Asleep # {} /\ Cardinality(Woken) \in Nat
              /\ Cardinality(Woken') = Cardinality(Woken) + 1
<1>1. CASE Asleep = {}
  BY <1>1 DEF Signal, Asleep
<1>2. CASE Asleep # {}
  <2>1. PICK c \in Asleep : pc' = [pc EXCEPT ![c] = "woken"]
    BY <1>2 DEF Signal
  <2>2. Woken' = Woken \cup {c} /\ c \notin Woken
    BY <2>1 DEF Woken, Asleep, QInv, QueueShape
  <2>3. QED
    BY <1>2, <2>2, WokenFacts
<1>3. QED
  BY <1>1, <1>2

\* The wakeups after every step.
LEMMA WakeupStep == QInv /\ [Next]_vars => NoLostWakeup'
<1> SUFFICES ASSUME QInv, [Next]_vars PROVE NoLostWakeup'
  OBVIOUS
<1>t. /\ pc \in [Consumers -> {"idle", "asleep", "woken", "got", "done"}]
      /\ count \in Nat /\ Cardinality(Woken) \in Nat /\ Cardinality(Woken') \in Nat
      /\ Asleep # {} => ~closed /\ count <= Cardinality(Woken)
  BY WokenFacts DEF QInv, QueueShape, RingConsistent, NoLostWakeup
<1>1. CASE Push
  <2>1. count' = count + 1 /\ ~closed' /\ Signal
    BY <1>1 DEF Push
  <2>2. QED
    BY <1>t, <2>1, SignalFacts DEF NoLostWakeup
<1>2. CASE PushDropsOldest
  <2>1. count' = count /\ ~closed' /\ Signal
    BY <1>2 DEF PushDropsOldest
  <2>2. QED
    BY <1>t, <2>1, SignalFacts DEF NoLostWakeup
<1>3. CASE PushFails
  <2>1. pc' = pc /\ ~closed' /\ count' \in {count, count - 1}
    BY <1>3 DEF PushFails, consumerVars
  <2>2. QED
    BY <1>t, <2>1 DEF NoLostWakeup, Asleep, Woken
<1>4. CASE Close
  BY <1>4 DEF Close, NoLostWakeup, Asleep
<1>5. CASE Destroy
  BY <1>5 DEF Destroy, consumerVars, NoLostWakeup, Asleep, Woken
<1>6. ASSUME NEW c \in Consumers, PopTakes(c) PROVE NoLostWakeup'
  <2>1. /\ pc' = [pc EXCEPT ![c] = "got"] /\ count' = count - 1
        /\ closed' = closed /\ Asleep' = Asleep
    BY <1>t, <1>6 DEF PopTakes, Asleep
  <2>2. CASE c \in Woken
    <3>1. Woken' = Woken \ {c}
      BY <1>t, <2>1 DEF Woken
    <3>2. QED
      BY <1>t, <2>1, <2>2, <3>1, WokenFacts DEF NoLostWakeup
  <2>3. CASE c \notin Woken
    <3>1. Woken' = Woken
      BY <1>t, <2>1, <2>3 DEF Woken
    <3>2. QED
      BY <1>t, <2>1, <3>1 DEF NoLostWakeup
  <2>4. QED
    BY <2>2, <2>3
<1>7. ASSUME NEW c \in Consumers, PopWaits(c) PROVE NoLostWakeup'
  <2>1. count' = 0 /\ ~closed'
    BY <1>7 DEF PopWaits, ringVars
  <2>2. QED
    BY <1>t, <2>1 DEF NoLostWakeup
<1>8. ASSUME NEW c \in Consumers, PopEnds(c) PROVE NoLostWakeup'
  <2>1. closed /\ Asleep = {} /\ pc' = [pc EXCEPT ![c] = "done"]
    BY <1>t, <1>8 DEF PopEnds
  <2>2. Asleep' = {}
    BY <1>t, <2>1 DEF Asleep
  <2>3. QED
    BY <2>2 DEF NoLostWakeup
<1>9. ASSUME NEW c \in Consumers, WakesSpuriously(c) PROVE NoLostWakeup'
  <2>1. /\ c \in Asleep /\ Woken' = Woken \cup {c} /\ c \notin Woken
        /\ count' = count /\ closed' = closed
    BY <1>t, <1>9 DEF WakesSpuriously, ringVars, Asleep, Woken
  <2>2. QED
    BY <1>t, <2>1, WokenFacts DEF NoLostWakeup
<1>10. ASSUME NEW c \in Consumers, Release(c) PROVE NoLostWakeup'
  <2>1. /\ Woken' = Woken /\ Asleep' = Asleep
        /\ count' = count /\ closed' = closed
    BY <1>t, <1>10 DEF Release, ringVars, Asleep, Woken
  <2>2. QED
    BY <1>t, <2>1 DEF NoLostWakeup
<1>11. CASE UNCHANGED vars
  BY <1>t, <1>11 DEF vars, ringVars, consumerVars, NoLostWakeup, Asleep, Woken
<1>12. QED
  BY <1>1, <1>2, <1>3, <1>4, <1>5, <1>6, <1>7, <1>8, <1>9, <1>10, <1>11 DEF Next

-----------------------------------------------------------------------------
(* The results                                                             *)

\* Types, the ring, the owners of copies and the wakeups hold in all states
\* of the queue.
THEOREM Invariance == Spec => []QInv
<1>1. Init => QInv
  <2> SUFFICES ASSUME Init PROVE QInv
    OBVIOUS
  <2> USE QueueAssumption DEF Init
  <2>1. QueueShape
    <3>1. offered \in 0..MaxPush /\ dropped \in Nat /\ copies \subseteq 1..offered
      OBVIOUS
    <3>2. QED
      BY <3>1 DEF QueueShape
  <2>2. RingConsistent
    <3>1. 0 \in Slot /\ At(0, 0) = 0
      BY SlotValues DEF Slot
    <3>2. QED
      BY <3>1 DEF RingConsistent, Occupied, SlotOf, At
  <2>3. EveryFrameHasOneOwner
    BY DEF EveryFrameHasOneOwner, Held
  <2>4. NoLostWakeup
    BY DEF NoLostWakeup, Asleep
  <2>5. QED
    BY <2>1, <2>2, <2>3, <2>4 DEF QInv
<1>2. QInv /\ [Next]_vars => QInv'
  BY ShapeStep, RingStep, OwnerStep, WakeupStep DEF QInv
<1>3. QED
  BY <1>1, <1>2, PTL DEF Spec

(***************************************************************************)
(* head, tail and count of frame_queue_t agree with the slots that hold a  *)
(* frame, however push, the drop of the oldest, failed pushes and pops     *)
(* alternate and however often the indexes wrap.                           *)
(***************************************************************************)
THEOREM RingStaysConsistent == Spec => []RingConsistent
<1>1. QInv => RingConsistent
  BY DEF QInv
<1>2. QED
  BY <1>1, Invariance, PTL

(***************************************************************************)
(* frame_queue.c neither leaks a copy of a frame nor frees one twice, for  *)
(* any number of consumers.                                                *)
(***************************************************************************)
THEOREM FramesOwned == Spec => []EveryFrameHasOneOwner
<1>1. QInv => EveryFrameHasOneOwner
  BY DEF QInv
<1>2. QED
  BY <1>1, Invariance, PTL

(***************************************************************************)
(* One signal per push is enough: while consumers sleep in                 *)
(* pthread_cond_wait, each frame in the queue has a woken consumer.        *)
(***************************************************************************)
THEOREM NoWakeupLost == Spec => []NoLostWakeup
<1>1. QInv => NoLostWakeup
  BY DEF QInv
<1>2. QED
  BY <1>1, Invariance, PTL
=============================================================================
