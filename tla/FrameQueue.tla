------------------------------ MODULE FrameQueue ------------------------------
(***************************************************************************)
(* frame_queue.c: a ring of frame_t slots under one mutex with one         *)
(* condition variable, not_empty.  Producers push copies of frames and     *)
(* never block; consumers pop and wait while the queue is empty and open.  *)
(* Every critical section is one action; a consumer in pthread_cond_wait   *)
(* has pc "asleep", one that was woken and must take the mutex again       *)
(* "woken".  A frame is its sequence number; copies is the set of frames   *)
(* that malloc has given a copy of and free has not taken back.            *)
(*                                                                         *)
(* The queue starts as a successful frame_queue_init leaves it.            *)
(***************************************************************************)
EXTENDS Naturals, FiniteSets

CONSTANTS
    Capacity,    \* queue->capacity
    Consumers,   \* threads that call frame_queue_pop
    MaxPush,     \* bound: number of frames offered to the queue
    Empty        \* a slot whose data is NULL

ASSUME QueueAssumption ==
    /\ Capacity \in Nat \ {0}
    /\ IsFiniteSet(Consumers)
    /\ MaxPush \in Nat
    /\ Empty \notin Nat

Slot == 0..(Capacity - 1)
Frame == 1..MaxPush

VARIABLES
    items, head, tail, count, dropped, closed,
    destroyed,
    offered,     \* number of frames offered so far
    copies,
    pc,          \* [Consumers -> "idle", "asleep", "woken", "got", "done"]
    out          \* the frame a consumer popped and has not released, or Empty

ringVars == <<items, head, tail, count, dropped>>
consumerVars == <<pc, out>>
vars == <<ringVars, closed, destroyed, offered, copies, consumerVars>>

Init ==
    /\ items = [i \in Slot |-> Empty]
    /\ head = 0 /\ tail = 0 /\ count = 0 /\ dropped = 0
    /\ closed = FALSE /\ destroyed = FALSE
    /\ offered = 0 /\ copies = {}
    /\ pc = [c \in Consumers |-> "idle"]
    /\ out = [c \in Consumers |-> Empty]

After(i) == (i + 1) % Capacity

Asleep == {c \in Consumers : pc[c] = "asleep"}
Woken == {c \in Consumers : pc[c] = "woken"}

-----------------------------------------------------------------------------

\* pthread_cond_signal wakes one waiter, if there is one.
Signal ==
    IF Asleep = {} THEN UNCHANGED pc
    ELSE \E c \in Asleep : pc' = [pc EXCEPT ![c] = "woken"]

\* Mutant of Push: only the push into an empty queue signals.
PushSignalsIfEmpty ==
    /\ ~closed /\ count < Capacity /\ offered < MaxPush
    /\ offered' = offered + 1
    /\ copies' = copies \cup {offered'}
    /\ items' = [items EXCEPT ![tail] = offered']
    /\ tail' = After(tail) /\ count' = count + 1
    /\ IF count = 0 THEN Signal ELSE UNCHANGED pc
    /\ UNCHANGED <<head, dropped, closed, destroyed, out>>

\* frame_queue_push into a queue with room.
Push ==
    /\ ~closed /\ count < Capacity /\ offered < MaxPush
    /\ offered' = offered + 1
    /\ copies' = copies \cup {offered'}
    /\ items' = [items EXCEPT ![tail] = offered']
    /\ tail' = After(tail) /\ count' = count + 1
    /\ Signal
    /\ UNCHANGED <<head, dropped, closed, destroyed, out>>

\* Mutant of PushDropsOldest: head stays where it was.
PushDropsKeepsHead ==
    /\ ~closed /\ count = Capacity /\ offered < MaxPush
    /\ offered' = offered + 1
    /\ copies' = (copies \ {items[head]}) \cup {offered'}
    /\ items' = [items EXCEPT ![tail] = offered']
    /\ tail' = After(tail)
    /\ dropped' = dropped + 1
    /\ Signal
    /\ UNCHANGED <<head, count, closed, destroyed, out>>

\* frame_queue_push into a full queue: the oldest frame makes room first.
PushDropsOldest ==
    /\ ~closed /\ count = Capacity /\ offered < MaxPush
    /\ offered' = offered + 1
    /\ copies' = (copies \ {items[head]}) \cup {offered'}
    /\ items' = [items EXCEPT ![head] = Empty, ![tail] = offered']
    /\ head' = After(head) /\ tail' = After(tail)
    /\ dropped' = dropped + 1
    /\ Signal
    /\ UNCHANGED <<count, closed, destroyed, out>>

\* Mutant of PushFails: the drop before the failed malloc is not counted.
PushFailsUncounted ==
    /\ ~closed /\ offered < MaxPush
    /\ offered' = offered + 1
    /\ IF count = Capacity
       THEN /\ copies' = copies \ {items[head]}
            /\ items' = [items EXCEPT ![head] = Empty]
            /\ head' = After(head) /\ count' = count - 1
       ELSE UNCHANGED <<copies, items, head, count>>
    /\ UNCHANGED <<tail, dropped, closed, destroyed, consumerVars>>

\* malloc fails in frame_copy: nothing enters, a full queue has still dropped.
PushFails ==
    /\ ~closed /\ offered < MaxPush
    /\ offered' = offered + 1
    /\ IF count = Capacity
       THEN /\ copies' = copies \ {items[head]}
            /\ items' = [items EXCEPT ![head] = Empty]
            /\ head' = After(head) /\ count' = count - 1
            /\ dropped' = dropped + 1
       ELSE UNCHANGED <<copies, items, head, count, dropped>>
    /\ UNCHANGED <<tail, closed, destroyed, consumerVars>>

\* Mutant of PopTakes: the slot is not cleared.
PopLeavesSlot(c) ==
    /\ pc[c] \in {"idle", "woken"} /\ count > 0
    /\ out' = [out EXCEPT ![c] = items[head]]
    /\ head' = After(head) /\ count' = count - 1
    /\ pc' = [pc EXCEPT ![c] = "got"]
    /\ UNCHANGED <<items, tail, dropped, closed, destroyed, offered, copies>>

\* frame_queue_pop takes the oldest frame over, at the call or once woken.
PopTakes(c) ==
    /\ pc[c] \in {"idle", "woken"} /\ count > 0
    /\ out' = [out EXCEPT ![c] = items[head]]
    /\ items' = [items EXCEPT ![head] = Empty]
    /\ head' = After(head) /\ count' = count - 1
    /\ pc' = [pc EXCEPT ![c] = "got"]
    /\ UNCHANGED <<tail, dropped, closed, destroyed, offered, copies>>

PopWaits(c) ==
    /\ pc[c] \in {"idle", "woken"} /\ count = 0 /\ ~closed
    /\ pc' = [pc EXCEPT ![c] = "asleep"]
    /\ UNCHANGED <<ringVars, closed, destroyed, offered, copies, out>>

\* pop returns 0, and the consumer ends.
PopEnds(c) ==
    /\ pc[c] \in {"idle", "woken"} /\ count = 0 /\ closed
    /\ pc' = [pc EXCEPT ![c] = "done"]
    /\ UNCHANGED <<ringVars, closed, destroyed, offered, copies, out>>

\* pthread_cond_wait may return without a signal.
WakesSpuriously(c) ==
    /\ pc[c] = "asleep"
    /\ pc' = [pc EXCEPT ![c] = "woken"]
    /\ UNCHANGED <<ringVars, closed, destroyed, offered, copies, out>>

\* The consumer calls frame_release on the frame it popped.
Release(c) ==
    /\ pc[c] = "got"
    /\ copies' = copies \ {out[c]}
    /\ out' = [out EXCEPT ![c] = Empty]
    /\ pc' = [pc EXCEPT ![c] = "idle"]
    /\ UNCHANGED <<ringVars, closed, destroyed, offered>>

\* Mutant of Close: one waiter is woken instead of all.
CloseSignalsOne ==
    /\ ~closed /\ closed' = TRUE
    /\ Signal
    /\ UNCHANGED <<ringVars, destroyed, offered, copies, out>>

\* frame_queue_close: everyone is woken.
Close ==
    /\ ~closed /\ closed' = TRUE
    /\ pc' = [c \in Consumers |-> IF pc[c] = "asleep" THEN "woken" ELSE pc[c]]
    /\ UNCHANGED <<ringVars, destroyed, offered, copies, out>>

\* frame_queue_destroy, called as in the test: after close, with nobody in pop.
Destroy ==
    /\ closed /\ ~destroyed /\ Asleep \cup Woken = {}
    /\ destroyed' = TRUE
    /\ copies' = copies \ {items[i] : i \in Slot}
    /\ items' = [i \in Slot |-> Empty]
    /\ head' = 0 /\ tail' = 0 /\ count' = 0
    /\ UNCHANGED <<dropped, closed, offered, consumerVars>>

PopContinues(c) ==
    pc[c] = "woken" /\ (PopTakes(c) \/ PopWaits(c) \/ PopEnds(c))

Next ==
    \/ /\ ~destroyed
       /\ \/ Push \/ PushDropsOldest \/ PushFails \/ Close \/ Destroy
          \/ \E c \in Consumers :
                PopTakes(c) \/ PopWaits(c) \/ PopEnds(c) \/ WakesSpuriously(c)
    \/ \E c \in Consumers : Release(c)
    \/ destroyed /\ UNCHANGED vars

Spec == Init /\ [][Next]_vars

(***************************************************************************)
(* A consumer inside frame_queue_pop is scheduled and gets the mutex; no   *)
(* thread has to call anything, and a frame may be kept forever.           *)
(***************************************************************************)
FairSpec == Spec /\ \A c \in Consumers : WF_vars(~destroyed /\ PopContinues(c))

-----------------------------------------------------------------------------
(* Properties                                                              *)

\* The slot of the i-th oldest frame.
SlotOf(i) == (head + i) % Capacity
Occupied == {SlotOf(i) : i \in 0..(count - 1)}

(***************************************************************************)
(* The ring is consistent: the fields have their types, tail is count      *)
(* slots after head, and exactly the slots between them hold a frame, so   *)
(* that neither a push overwrites one nor a pop returns an empty one.      *)
(***************************************************************************)
RingConsistent ==
    /\ head \in Slot /\ tail \in Slot /\ count \in 0..Capacity
    /\ items \in [Slot -> Frame \cup {Empty}]
    /\ tail = SlotOf(count)
    /\ \A i \in Slot : items[i] # Empty <=> i \in Occupied

(***************************************************************************)
(* Frame copies are neither leaked nor freed twice: through drops, failed  *)
(* pushes, pops, releases and destroy, a copy exists exactly while one     *)
(* slot, or one consumer, holds it.                                        *)
(***************************************************************************)
Held == {items[i] : i \in Slot} \cup {out[c] : c \in Consumers}

EveryFrameHasOneOwner ==
    /\ copies = Held \ {Empty}
    /\ \A i, j \in Slot : i # j /\ items[i] # Empty => items[i] # items[j]
    /\ \A c, d \in Consumers : c # d /\ out[c] # Empty => out[c] # out[d]
    /\ \A i \in Slot, c \in Consumers : out[c] # Empty => items[i] # out[c]

(***************************************************************************)
(* No lost wakeup: while consumers sleep, every frame in the queue has a   *)
(* consumer of its own already on the way to it, and the queue is open.    *)
(***************************************************************************)
NoLostWakeup ==
    Asleep # {} => ~closed /\ count <= Cardinality(Woken)

(***************************************************************************)
(* The ring implements the lossy FIFO: order, drop-oldest, the drop count  *)
(* and close are as promised.                                              *)
(***************************************************************************)
Fifo == INSTANCE LossyFifo WITH
            Takers <- Consumers, Frames <- Frame, Nothing <- Empty,
            q <- [i \in 1..count |-> items[SlotOf(i - 1)]],
            lost <- dropped, taken <- out

ImplementsFifo == Fifo!Spec

(***************************************************************************)
(* Close reaches every consumer: whoever waits in pop when the queue is    *)
(* closed gets a frame that is left or the end of the stream.              *)
(***************************************************************************)
CloseEndsEveryPop ==
    \A c \in Consumers :
        closed /\ pc[c] \in {"asleep", "woken"} ~> pc[c] \in {"got", "done"}
=============================================================================
