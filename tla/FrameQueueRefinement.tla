------------------------- MODULE FrameQueueRefinement -------------------------
(***************************************************************************)
(* The ring of frame_queue.c implements the queue of LossyFifo: a step of  *)
(* FrameQueue is a step of LossyFifo on the frames from head to tail, or   *)
(* changes nothing that LossyFifo sees.                                    *)
(***************************************************************************)
EXTENDS FrameQueueProofs, Sequences

-----------------------------------------------------------------------------
(* The ring as a sequence                                                  *)

\* The n frames from slot h on, oldest first.
Ring(its, h, n) == [i \in 1..n |-> its[At(h, i - 1)]]

LEMMA FunctionIsSequence ==
    ASSUME NEW n \in Nat, NEW S, NEW f \in [1..n -> S]
    PROVE  f \in Seq(S) /\ Len(f) = n
OBVIOUS

LEMMA SequenceIsFunction ==
    ASSUME NEW n \in Nat, NEW S, NEW s \in Seq(S), Len(s) = n
    PROVE  s \in [1..n -> S]
OBVIOUS

LEMMA AppendFacts ==
    ASSUME NEW S, NEW s \in Seq(S), NEW x \in S
    PROVE  /\ Append(s, x) \in Seq(S)
           /\ Len(Append(s, x)) = Len(s) + 1
           /\ Append(s, x)[Len(s) + 1] = x
           /\ \A i \in 1..Len(s) : Append(s, x)[i] = s[i]
OBVIOUS

LEMMA TailFacts ==
    ASSUME NEW S, NEW s \in Seq(S), s # <<>>
    PROVE  /\ Tail(s) \in Seq(S)
           /\ Len(Tail(s)) = Len(s) - 1
           /\ Head(s) = s[1]
           /\ \A i \in 1..(Len(s) - 1) : Tail(s)[i] = s[i + 1]
OBVIOUS

\* In a consistent ring the slots from head on hold frames.
LEMMA RingIsSequence ==
    ASSUME NEW h \in Slot, NEW n \in 0..Capacity,
           NEW its \in [Slot -> Frame \cup {Empty}],
           \A i \in Slot : its[i] # Empty <=> i \in {At(h, k) : k \in 0..(n - 1)}
    PROVE  Ring(its, h, n) \in Seq(Frame) /\ Len(Ring(its, h, n)) = n
<1>1. ASSUME NEW i \in 1..n PROVE its[At(h, i - 1)] \in Frame
  <2>1. i - 1 \in 0..(n - 1) /\ i - 1 \in 0..Capacity
    BY QueueAssumption
  <2>2. At(h, i - 1) \in Slot
    BY <2>1, SlotValues
  <2>3. QED
    BY <2>1, <2>2
<1>2. Ring(its, h, n) \in [1..n -> Frame]
  BY <1>1 DEF Ring
<1>3. QED
  BY <1>2, FunctionIsSequence, QueueAssumption

\* A frame in the slot behind the newest is appended.
LEMMA RingEnter ==
    ASSUME NEW h \in Slot, NEW n \in 0..(Capacity - 1), NEW f \in Frame,
           NEW its \in [Slot -> Frame \cup {Empty}],
           Ring(its, h, n) \in Seq(Frame), Len(Ring(its, h, n)) = n
    PROVE  Ring([its EXCEPT ![At(h, n)] = f], h, n + 1)
             = Append(Ring(its, h, n), f)
<1> DEFINE new == [its EXCEPT ![At(h, n)] = f]
<1>1. n \in Nat /\ n < Capacity /\ At(h, n) \in Slot
  BY SlotValues, QueueAssumption
<1>2. ASSUME NEW i \in 1..n PROVE new[At(h, i - 1)] = its[At(h, i - 1)]
  <2>1. i - 1 \in 0..Capacity /\ i - 1 < n /\ n \in 0..Capacity
    BY <1>1, QueueAssumption
  <2>2. At(h, i - 1) # At(h, n)
    <3>1. At(h, i - 1) = IF h + (i - 1) < Capacity THEN h + (i - 1)
                                                ELSE h + (i - 1) - Capacity
      BY <2>1, SlotValues
    <3>2. At(h, n) = IF h + n < Capacity THEN h + n ELSE h + n - Capacity
      BY <2>1, SlotValues
    <3>3. QED
      BY <1>1, <2>1, <3>1, <3>2, QueueAssumption DEF Slot
  <2>3. At(h, i - 1) \in Slot
    BY <2>1, SlotValues
  <2>4. QED
    BY <2>2, <2>3
<1>3. new[At(h, n)] = f
  BY <1>1
<1>4. \A i \in 1..(n + 1) : Ring(new, h, n + 1)[i] = new[At(h, i - 1)]
  BY DEF Ring
<1>5. \A i \in 1..n : Ring(its, h, n)[i] = its[At(h, i - 1)]
  BY DEF Ring
<1>6. ASSUME NEW i \in 1..(n + 1)
      PROVE  Ring(new, h, n + 1)[i] = Append(Ring(its, h, n), f)[i]
  <2>1. CASE i = n + 1
    <3>1. i - 1 = n
      BY <1>1, <2>1
    <3>2. Ring(new, h, n + 1)[i] = f
      BY <1>3, <1>4, <3>1
    <3>3. QED
      BY <2>1, <3>2, AppendFacts
  <2>2. CASE i # n + 1
    <3>1. i \in 1..n
      BY <1>1, <2>2
    <3>2. Append(Ring(its, h, n), f)[i] = Ring(its, h, n)[i]
      BY <3>1, AppendFacts
    <3>3. QED
      BY <1>2, <1>4, <1>5, <3>1, <3>2
  <2>3. QED
    BY <2>1, <2>2
<1>7. Append(Ring(its, h, n), f) \in [1..(n + 1) -> Frame]
  <2>1. /\ Append(Ring(its, h, n), f) \in Seq(Frame)
        /\ Len(Append(Ring(its, h, n), f)) = n + 1 /\ n + 1 \in Nat
    BY <1>1, AppendFacts
  <2>2. QED
    BY <2>1, SequenceIsFunction
<1>8. QED
  BY <1>6, <1>7 DEF Ring

\* Without its oldest frame the ring is the tail.
LEMMA RingLeave ==
    ASSUME NEW h \in Slot, NEW n \in 1..Capacity,
           NEW its \in [Slot -> Frame \cup {Empty}],
           Ring(its, h, n) \in Seq(Frame), Len(Ring(its, h, n)) = n
    PROVE  /\ Ring(its, h, n) # <<>>
           /\ Head(Ring(its, h, n)) = its[h]
           /\ Ring([its EXCEPT ![h] = Empty], After(h), n - 1)
                = Tail(Ring(its, h, n))
<1> DEFINE new == [its EXCEPT ![h] = Empty]
<1>1. n \in Nat \ {0} /\ Ring(its, h, n) # <<>>
  BY QueueAssumption
<1>2. \A i \in 1..n : Ring(its, h, n)[i] = its[At(h, i - 1)]
  BY DEF Ring
<1>3. Head(Ring(its, h, n)) = its[h]
  <2>1. At(h, 0) = h
    BY SlotValues, QueueAssumption DEF Slot
  <2>2. Head(Ring(its, h, n)) = Ring(its, h, n)[1]
    BY <1>1, TailFacts
  <2>3. QED
    BY <1>1, <1>2, <2>1, <2>2
<1>4. ASSUME NEW i \in 1..(n - 1)
      PROVE  new[At(After(h), i - 1)] = its[At(h, i)]
  <2>1. i \in 0..Capacity /\ i - 1 \in 0..Capacity /\ i < Capacity /\ i > 0
    BY QueueAssumption
  <2>2. After(h) = IF h + 1 = Capacity THEN 0 ELSE h + 1
    BY AfterValues
  <2>3. After(h) \in Slot
    BY <2>2, QueueAssumption DEF Slot
  <2>4. At(After(h), i - 1) = IF After(h) + (i - 1) < Capacity
                              THEN After(h) + (i - 1)
                              ELSE After(h) + (i - 1) - Capacity
    BY <2>1, <2>3, SlotValues
  <2>5. At(h, i) = IF h + i < Capacity THEN h + i ELSE h + i - Capacity
    BY <2>1, SlotValues
  <2>6. At(After(h), i - 1) = At(h, i) /\ At(h, i) # h
    BY <2>1, <2>2, <2>4, <2>5, QueueAssumption DEF Slot
  <2>7. At(h, i) \in Slot
    BY <2>1, SlotValues
  <2>8. QED
    BY <2>6, <2>7
<1>5. ASSUME NEW i \in 1..(n - 1)
      PROVE  Ring(new, After(h), n - 1)[i] = Tail(Ring(its, h, n))[i]
  <2>1. Tail(Ring(its, h, n))[i] = Ring(its, h, n)[i + 1]
    BY <1>1, TailFacts
  <2>2. i + 1 \in 1..n /\ (i + 1) - 1 = i
    BY <1>1
  <2>3. Ring(its, h, n)[i + 1] = its[At(h, i)]
    BY <1>2, <2>2
  <2>4. Ring(new, After(h), n - 1)[i] = new[At(After(h), i - 1)]
    BY DEF Ring
  <2>5. QED
    BY <1>4, <2>1, <2>3, <2>4
<1>6. Tail(Ring(its, h, n)) \in [1..(n - 1) -> Frame]
  <2>1. /\ Tail(Ring(its, h, n)) \in Seq(Frame)
        /\ Len(Tail(Ring(its, h, n))) = n - 1 /\ n - 1 \in Nat
    BY <1>1, TailFacts
  <2>2. QED
    BY <2>1, SequenceIsFunction
<1>7. QED
  BY <1>1, <1>3, <1>5, <1>6 DEF Ring

-----------------------------------------------------------------------------
(* Every step of the ring is a step of the queue                           *)

\* What LossyFifo sees as q.
Contents == [i \in 1..count |-> items[SlotOf(i - 1)]]

LEMMA ContentsIsRing ==
    /\ Contents = Ring(items, head, count)
    /\ Contents' = Ring(items', head', count')
BY DEF Contents, Ring, SlotOf, At

LEMMA ContentsIsSequence ==
    ASSUME QInv
    PROVE  /\ Contents \in Seq(Frame) /\ Len(Contents) = count
           /\ head \in Slot /\ count \in 0..Capacity
           /\ items \in [Slot -> Frame \cup {Empty}]
           /\ tail = At(head, count) /\ tail \in Slot
<1>1. /\ head \in Slot /\ count \in 0..Capacity
      /\ items \in [Slot -> Frame \cup {Empty}]
      /\ tail = At(head, count) /\ tail \in Slot
  BY DEF QInv, RingConsistent, SlotOf, At
<1>2. \A i \in Slot : items[i] # Empty
                        <=> i \in {At(head, k) : k \in 0..(count - 1)}
  BY DEF QInv, RingConsistent, Occupied, SlotOf, At
<1>3. QED
  BY <1>1, <1>2, RingIsSequence, ContentsIsRing

\* A number that is offered is a frame.
LEMMA OfferedIsFrame ==
    ASSUME QInv, offered < MaxPush, offered' = offered + 1
    PROVE  offered' \in Frame
BY QueueAssumption DEF QInv, QueueShape, Frame

\* frame_queue_push with room puts the frame at the end.
LEMMA PushPuts == QInv /\ Push => Fifo!Put
<1> SUFFICES ASSUME QInv, Push PROVE Fifo!Put
  OBVIOUS
<1>1. /\ offered' \in Frame /\ count < Capacity /\ ~closed /\ head' = head
      /\ items' = [items EXCEPT ![tail] = offered'] /\ count' = count + 1
      /\ UNCHANGED <<dropped, closed, out>>
  BY OfferedIsFrame DEF Push
<1>2. count \in 0..(Capacity - 1)
  BY <1>1, ContentsIsSequence, QueueAssumption
<1>3. Contents' = Append(Contents, offered')
  <2>1. Ring([items EXCEPT ![At(head, count)] = offered'], head, count + 1)
          = Append(Ring(items, head, count), offered')
    BY <1>1, <1>2, ContentsIsSequence, ContentsIsRing, RingEnter
  <2>2. QED
    BY <1>1, <2>1, ContentsIsSequence, ContentsIsRing
<1>4. Len(Contents) # Capacity
  BY <1>1, <1>2, ContentsIsSequence, QueueAssumption
<1>5. QED
  BY <1>1, <1>3, <1>4 DEF Fifo!Put, Contents

\* frame_queue_push into a full ring puts it behind all but the oldest.
LEMMA PushDropsPuts == QInv /\ PushDropsOldest => Fifo!Put
<1> SUFFICES ASSUME QInv, PushDropsOldest PROVE Fifo!Put
  OBVIOUS
<1> DEFINE room == [items EXCEPT ![head] = Empty]
<1>1. /\ offered' \in Frame /\ count = Capacity /\ ~closed
      /\ head' = After(head) /\ count' = Capacity /\ dropped' = dropped + 1
      /\ items' = [room EXCEPT ![tail] = offered']
      /\ UNCHANGED <<closed, out>>
  BY OfferedIsFrame DEF PushDropsOldest
<1>2. /\ Capacity \in 1..Capacity /\ Capacity \in 0..Capacity
      /\ Capacity - 1 \in 0..(Capacity - 1) /\ Capacity - 1 \in 0..Capacity
      /\ (Capacity - 1) + 1 = Capacity /\ Capacity - 1 \in Nat
  BY QueueAssumption
<1>3. Contents # <<>> /\ Ring(room, head', Capacity - 1) = Tail(Contents)
  BY <1>1, <1>2, ContentsIsSequence, ContentsIsRing, RingLeave
<1>4. /\ Tail(Contents) \in Seq(Frame) /\ Len(Tail(Contents)) = Capacity - 1
  BY <1>1, <1>3, ContentsIsSequence, TailFacts
<1>5. head' \in Slot /\ At(head', Capacity - 1) = tail
  <2>1. head' = IF head + 1 = Capacity THEN 0 ELSE head + 1
    BY <1>1, ContentsIsSequence, AfterValues
  <2>2. head' \in Slot
    BY <2>1, ContentsIsSequence, QueueAssumption DEF Slot
  <2>3. At(head', Capacity - 1) = IF head' + (Capacity - 1) < Capacity
                                  THEN head' + (Capacity - 1)
                                  ELSE head' + (Capacity - 1) - Capacity
    BY <1>2, <2>2, SlotValues
  <2>4. tail = IF head + Capacity < Capacity THEN head + Capacity
                                             ELSE head + Capacity - Capacity
    BY <1>1, <1>2, ContentsIsSequence, SlotValues
  <2>5. QED
    BY <2>1, <2>2, <2>3, <2>4, ContentsIsSequence, QueueAssumption DEF Slot
<1>6. room \in [Slot -> Frame \cup {Empty}]
  BY ContentsIsSequence
<1>7. Ring(items', head', Capacity) = Append(Tail(Contents), offered')
  <2>1. Ring([room EXCEPT ![At(head', Capacity - 1)] = offered'], head',
             (Capacity - 1) + 1)
          = Append(Ring(room, head', Capacity - 1), offered')
    <3> HIDE DEF room
    <3>1. QED
      <4>1. /\ head' \in Slot /\ Capacity - 1 \in 0..(Capacity - 1)
            /\ offered' \in Frame /\ room \in [Slot -> Frame \cup {Empty}]
        BY <1>1, <1>2, <1>5, <1>6
      <4>2. /\ Ring(room, head', Capacity - 1) \in Seq(Frame)
            /\ Len(Ring(room, head', Capacity - 1)) = Capacity - 1
        BY <1>3, <1>4
      <4>3. QED
        BY <4>1, <4>2, RingEnter
  <2>2. QED
    BY <1>1, <1>2, <1>3, <1>5, <2>1
<1>8. Contents' = Append(Tail(Contents), offered')
  BY <1>1, <1>7, ContentsIsRing
<1>9. Len(Contents) = Capacity
  BY <1>1, ContentsIsSequence
<1>10. QED
  BY <1>1, <1>8, <1>9 DEF Fifo!Put, Contents

\* frame_copy fails: a full ring has lost its oldest frame.
LEMMA PushFailsLoses ==
    QInv /\ PushFails => Fifo!LoseOldest \/ UNCHANGED <<Contents, dropped, closed, out>>
<1> SUFFICES ASSUME QInv, PushFails
             PROVE  Fifo!LoseOldest \/ UNCHANGED <<Contents, dropped, closed, out>>
  OBVIOUS
<1>1. CASE count = Capacity
  <2>1. /\ items' = [items EXCEPT ![head] = Empty] /\ head' = After(head)
        /\ count' = count - 1 /\ dropped' = dropped + 1 /\ ~closed
        /\ UNCHANGED <<closed, out>>
    BY <1>1 DEF PushFails, consumerVars
  <2>2. count \in 1..Capacity
    BY <1>1, QueueAssumption
  <2>3. Contents' = Tail(Contents) /\ Len(Contents) = Capacity
    BY <1>1, <2>1, <2>2, ContentsIsSequence, ContentsIsRing, RingLeave
  <2>4. QED
    BY <2>1, <2>3 DEF Fifo!LoseOldest, Contents
<1>2. CASE count # Capacity
  BY <1>2, ContentsIsRing DEF PushFails, consumerVars
<1>3. QED
  BY <1>1, <1>2

\* frame_queue_pop takes the first frame.
LEMMA PopTakesHead ==
    ASSUME QInv, NEW c \in Consumers, PopTakes(c)
    PROVE  Fifo!Take(c)
<1>1. /\ count \in 1..Capacity /\ out[c] = Empty
      /\ items' = [items EXCEPT ![head] = Empty] /\ head' = After(head)
      /\ count' = count - 1 /\ out' = [out EXCEPT ![c] = items[head]]
      /\ UNCHANGED <<dropped, closed>>
  BY ContentsIsSequence DEF PopTakes, QInv, QueueShape
<1>2. /\ Contents # <<>> /\ Head(Contents) = items[head]
      /\ Contents' = Tail(Contents)
  BY <1>1, ContentsIsSequence, ContentsIsRing, RingLeave
<1>3. QED
  BY <1>1, <1>2 DEF Fifo!Take, Contents

LEMMA StepImplements ==
    QInv /\ [Next]_vars => [Fifo!Next]_(Fifo!fifoVars)
<1> SUFFICES ASSUME QInv, [Next]_vars
             PROVE  Fifo!Next \/ UNCHANGED <<Contents, dropped, closed, out>>
  BY DEF Fifo!fifoVars, Contents
<1>1. CASE Push
  BY <1>1, PushPuts DEF Fifo!Next
<1>2. CASE PushDropsOldest
  BY <1>2, PushDropsPuts DEF Fifo!Next
<1>3. CASE PushFails
  BY <1>3, PushFailsLoses DEF Fifo!Next
<1>4. CASE Close
  <2>1. closed' = TRUE /\ UNCHANGED <<Contents, dropped, out>>
    BY <1>4, ContentsIsRing DEF Close, ringVars
  <2>2. QED
    BY <2>1 DEF Fifo!Next, Fifo!Close, Contents
<1>5. CASE Destroy
  <2>1. closed /\ count' = 0 /\ UNCHANGED <<dropped, closed, out>>
    BY <1>5 DEF Destroy, consumerVars
  <2>2. Contents' = <<>>
    BY <2>1 DEF Contents
  <2>3. QED
    BY <2>1, <2>2 DEF Fifo!Next, Fifo!Discard, Contents
<1>6. ASSUME NEW c \in Consumers, PopTakes(c)
      PROVE  Fifo!Next
  BY <1>6, PopTakesHead DEF Fifo!Next
<1>7. ASSUME NEW c \in Consumers, PopWaits(c) \/ PopEnds(c) \/ WakesSpuriously(c)
      PROVE  UNCHANGED <<Contents, dropped, closed, out>>
  BY <1>7, ContentsIsRing DEF PopWaits, PopEnds, WakesSpuriously, ringVars
<1>8. ASSUME NEW c \in Consumers, Release(c)
      PROVE  Fifo!Next
  <2>1. out' = [out EXCEPT ![c] = Empty] /\ UNCHANGED <<Contents, dropped, closed>>
    BY <1>8, ContentsIsRing DEF Release, ringVars
  <2>2. Fifo!Drop(c)
    BY <2>1 DEF Fifo!Drop, Contents
  <2>3. QED
    BY <2>2 DEF Fifo!Next
<1>9. CASE UNCHANGED vars
  BY <1>9, ContentsIsRing DEF vars, ringVars, consumerVars
<1>10. QED
  BY <1>1, <1>2, <1>3, <1>4, <1>5, <1>6, <1>7, <1>8, <1>9 DEF Next

(***************************************************************************)
(* frame_queue.c keeps what frame_queue.h promises: frames leave in the    *)
(* order they entered, a full queue loses its oldest frame and counts it,  *)
(* nothing enters after close, and what is inside can still be taken.      *)
(***************************************************************************)
THEOREM RingImplementsFifo == Spec => ImplementsFifo
<1>1. Init => Fifo!Init
  <2> SUFFICES ASSUME Init PROVE Fifo!Init
    OBVIOUS
  <2>1. Contents = <<>>
    BY DEF Init, Contents
  <2>2. QED
    BY <2>1 DEF Init, Fifo!Init, Contents
<1>2. QED
  BY <1>1, StepImplements, Invariance, PTL DEF Spec, ImplementsFifo, Fifo!Spec
=============================================================================
