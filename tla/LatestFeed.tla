------------------------------ MODULE LatestFeed ------------------------------
(***************************************************************************)
(* What the service promises the viewers of /stream, abstractly: the       *)
(* camera publishes frames of growing sequence numbers, only the newest is *)
(* kept, and whatever a viewer is handed is the newest frame of that       *)
(* moment and newer than everything it was handed before.  A viewer may    *)
(* miss frames; it never sees one twice and never an old one.              *)
(***************************************************************************)
EXTENDS Naturals

CONSTANTS Viewers, Frames

VARIABLES
    newest,  \* the newest published frame; 0 before the first
    seen,    \* the last frame handed to each viewer; 0 before the first
    busy,    \* the viewers a frame is being sent to
    open     \* the feed has not been shut down

feedVars == <<newest, seen, busy, open>>

Init ==
    /\ newest = 0
    /\ seen = [v \in Viewers |-> 0]
    /\ busy = {}
    /\ open = TRUE

Publish ==
    /\ open
    /\ \E f \in Frames : f > newest /\ newest' = f
    /\ UNCHANGED <<seen, busy, open>>

Hand(v) ==
    /\ open /\ v \notin busy
    /\ newest > seen[v]
    /\ seen' = [seen EXCEPT ![v] = newest]
    /\ busy' = busy \cup {v}
    /\ UNCHANGED <<newest, open>>

Sent(v) ==
    /\ busy' = busy \ {v}
    /\ UNCHANGED <<newest, seen, open>>

Shut ==
    /\ open /\ open' = FALSE
    /\ newest' = 0
    /\ UNCHANGED <<seen, busy>>

Next == Publish \/ Shut \/ \E v \in Viewers : Hand(v) \/ Sent(v)

Spec == Init /\ [][Next]_feedVars
=============================================================================
