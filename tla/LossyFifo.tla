------------------------------ MODULE LossyFifo ------------------------------
(***************************************************************************)
(* What frame_queue.h promises, abstractly: a first-in first-out queue of  *)
(* at most Capacity frames that never blocks the producer.  When it is     *)
(* full the oldest frame makes room, and every frame lost that way is      *)
(* counted.  After close nothing enters, what is inside can still be taken.*)
(***************************************************************************)
EXTENDS Naturals, Sequences

CONSTANTS Capacity, Takers, Frames, Nothing

VARIABLES
    q,       \* the frames in the queue, oldest first
    lost,    \* number of frames dropped to make room
    closed,
    taken    \* the frame each taker holds, or Nothing

fifoVars == <<q, lost, closed, taken>>

Init ==
    /\ q = <<>>
    /\ lost = 0
    /\ closed = FALSE
    /\ taken = [t \in Takers |-> Nothing]

Put ==
    /\ ~closed
    /\ \E f \in Frames :
          IF Len(q) = Capacity
          THEN q' = Append(Tail(q), f) /\ lost' = lost + 1
          ELSE q' = Append(q, f) /\ UNCHANGED lost
    /\ UNCHANGED <<closed, taken>>

\* A put into a full queue that makes room and then has no memory.
LoseOldest ==
    /\ ~closed /\ Len(q) = Capacity
    /\ q' = Tail(q) /\ lost' = lost + 1
    /\ UNCHANGED <<closed, taken>>

Take(t) ==
    /\ q # <<>> /\ taken[t] = Nothing
    /\ taken' = [taken EXCEPT ![t] = Head(q)]
    /\ q' = Tail(q)
    /\ UNCHANGED <<lost, closed>>

Drop(t) ==
    /\ taken' = [taken EXCEPT ![t] = Nothing]
    /\ UNCHANGED <<q, lost, closed>>

Close ==
    /\ closed' = TRUE
    /\ UNCHANGED <<q, lost, taken>>

\* The closed queue is thrown away with what is left in it.
Discard ==
    /\ closed /\ q' = <<>>
    /\ UNCHANGED <<lost, closed, taken>>

Next ==
    \/ Put \/ LoseOldest \/ Close \/ Discard
    \/ \E t \in Takers : Take(t) \/ Drop(t)

Spec == Init /\ [][Next]_fifoVars
=============================================================================
