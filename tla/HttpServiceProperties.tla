------------------------- MODULE HttpServiceProperties -------------------------
(***************************************************************************)
(* What makes the HTTP service correct.                                    *)
(***************************************************************************)
EXTENDS HttpService

(***************************************************************************)
(* Every variable has its type.                                            *)
(***************************************************************************)
TypeOK ==
    /\ mainPc \in MainPcs
    /\ serving \in Clients \cup {None}
    /\ listening \in BOOLEAN
    /\ display \in BOOLEAN
    /\ svc \in {"uninit", "live", "destroyed"}
    /\ stop \in BOOLEAN
    /\ failed \in BOOLEAN
    /\ latest \in Block \cup {None}
    /\ connected \in Nat
    /\ captured \in Nat
    /\ empties \in Nat
    /\ dropped \in Nat
    /\ capPc \in CapturePcs
    /\ queued \subseteq Buffers
    /\ held \in Buffers \cup {None}
    /\ nextSeq \in 0..(MaxSeq + 1)
    /\ capCopy \in Block \cup {None}
    /\ pc \in [Clients -> ClientPcs]
    /\ lastSeq \in [Clients -> Sequence]
    /\ copy \in [Clients -> Block \cup {None}]
    /\ fd \in [Clients -> {"none", "pending", "open", "closed"}]
    /\ path \in [Clients -> RequestKinds \cup {None}]
    /\ gone \subseteq Clients
    /\ mem \in [Block -> Sequence \cup {None}]

-----------------------------------------------------------------------------
(* Memory and descriptors                                                  *)

(***************************************************************************)
(* Frame copies are neither leaked, shared nor used after free: whatever   *)
(* the interleaving of update_latest, copy_latest, wait_latest, the sends  *)
(* and destroy, a block is allocated exactly when one pointer, and only    *)
(* one, holds it.                                                          *)
(***************************************************************************)
EveryCopyHasOneOwner ==
    /\ \A b \in Block :
          mem[b] # None <=> b = latest \/ b = capCopy
                              \/ \E c \in Clients : copy[c] = b
    /\ latest # None => latest # capCopy
    /\ \A c \in Clients : copy[c] # None =>
          /\ copy[c] # latest /\ copy[c] # capCopy
          /\ \A d \in Clients \ {c} : copy[c] # copy[d]

(***************************************************************************)
(* The frame a stream client is sending is the one it waited for, however  *)
(* often the capture thread replaces service->latest during the send.      *)
(***************************************************************************)
SendsWhatItTook ==
    \A c \in Clients : pc[c] = "send" => mem[copy[c]] = lastSeq[c]

(***************************************************************************)
(* Every accepted socket is closed exactly once: an open descriptor is     *)
(* always in the hands of exactly one thread that still has to close it,   *)
(* main while it handles the request, then the client thread.              *)
(***************************************************************************)
MainOwns(c) == serving = c /\ mainPc \in {"recv", "count", "create", "uncount"}
ThreadOwns(c) == pc[c] \notin {"none", "done"}

EverySocketHasOneOwner ==
    \A c \in Clients :
        /\ fd[c] = "open" <=> MainOwns(c) \/ ThreadOwns(c)
        /\ ~(MainOwns(c) /\ ThreadOwns(c))

(***************************************************************************)
(* While the camera streams no V4L2 buffer is lost: each one is queued in  *)
(* the driver or is the one the capture thread is working on, and the      *)
(* thread never goes back to select with a buffer in its hands, not after  *)
(* an empty frame or a failed copy either.                                 *)
(***************************************************************************)
NoBufferLost ==
    mainPc \notin {"exit", "crashed"} =>
        /\ Buffers = IF held = None THEN queued ELSE queued \cup {held}
        /\ held \notin queued
        /\ capPc \in {"check", "select"} => held = None

-----------------------------------------------------------------------------
(* Waiting and stopping                                                    *)

(***************************************************************************)
(* No lost wakeup: a stream client sleeps in pthread_cond_timedwait only   *)
(* while there is really nothing for it, neither a stop nor a frame it has *)
(* not seen.                                                               *)
(***************************************************************************)
SleepsOnlyIfNothingNew ==
    svc = "live" =>
        \A c \in Clients : pc[c] = "asleep" => ~stop /\ ~HasNew(c)

(***************************************************************************)
(* A stream ends for a reason: the thread of a /stream request leaves its  *)
(* loop only if the service stops, the capture failed or its viewer is     *)
(* gone; a timeout or one failed malloc of wait_latest does not end it.    *)
(* The capture has failed if the driver did, but also if one frame could   *)
(* not be copied (v4l2_capture.c:588-593).                                 *)
(***************************************************************************)
StreamEndsForAReason ==
    \A c \in Clients :
        path[c] = "stream" /\ pc[c] \in {"fin", "close", "done"} =>
            stop \/ failed \/ c \in gone

(***************************************************************************)
(* What the capture thread uses outlives it in every mode and on every way *)
(* out: the service is destroyed, the display closed and the buffers       *)
(* unmapped only after the join, or if the thread was never created        *)
(* (v4l2_capture.c:1187-1195).                                             *)
(***************************************************************************)
ServiceOutlivesCapture ==
    capPc \notin {"none", "done"} =>
        svc = "live" /\ display = FbPreview /\ mainPc \notin {"release", "exit"}

(***************************************************************************)
(* The service outlives the client threads: no http_client_thread that     *)
(* still uses the http_service_t on main's stack is alive once it is       *)
(* destroyed.                                                              *)
(***************************************************************************)
ServiceOutlivesClients ==
    svc = "destroyed" =>
        \A c \in Clients : pc[c] \in {"none", "close", "done"}

(***************************************************************************)
(* With a frame count the program gives everything back before it ends     *)
(* (improvement_plan.md:66): when main returns, whatever failed on the     *)
(* way, no frame copy is allocated and no socket or display is open.       *)
(***************************************************************************)
CleanExit ==
    mainPc = "exit" /\ ~Continuous =>
        /\ \A b \in Block : mem[b] = None
        /\ \A c \in Clients : fd[c] # "open"
        /\ ~listening /\ ~display /\ serving = None

-----------------------------------------------------------------------------
(* Accounting                                                              *)

Counted(c) ==
    \/ pc[c] \notin {"none", "close", "done"}
    \/ serving = c /\ mainPc \in {"create", "uncount"}

CountedClients == {c \in Clients : Counted(c)}

(***************************************************************************)
(* The counters are right.  connected_clients: under every interleaving of *)
(* accepts, failed pthread_creates and finishing threads it is the number  *)
(* of connections counted and not yet finished, so the guard against a     *)
(* negative count never hides a lost update.  captured_frames and          *)
(* empty_frames: every dequeued frame is in one of them, but not one that  *)
(* could not be copied (v4l2_capture.c:588), nor the one frame in the      *)
(* capture thread's hands.                                                 *)
(***************************************************************************)
CountersAreExact ==
    /\ svc = "live" => connected = Cardinality(CountedClients)
    /\ nextSeq = captured + empties + dropped
                    + (IF capPc \in {"copy", "publish", "tally"} THEN 1 ELSE 0)

-----------------------------------------------------------------------------
(* Refinement                                                              *)

(***************************************************************************)
(* The service implements LatestFeed: every frame handed to a stream is    *)
(* the newest at that moment and newer than the one before.                *)
(***************************************************************************)
Newest == IF latest = None THEN 0 ELSE mem[latest]
Sending == {c \in Clients : pc[c] = "send"}

Feed == INSTANCE LatestFeed WITH
            Viewers <- Clients,
            Frames <- Sequence,
            newest <- Newest,
            seen <- lastSeq,
            busy <- Sending,
            open <- svc # "destroyed"

ImplementsFeed == Feed!Spec

-----------------------------------------------------------------------------
(* Liveness                                                                *)

(***************************************************************************)
(* Slow clients do not block the capture thread (full_project_plan.md:564, *)
(* progress.md:458): with fairness for that thread alone, so even if every *)
(* client thread and main stand still, a buffer it took goes back to the   *)
(* driver or the camera has failed, and once the service is stopped the    *)
(* thread ends, so that main's join returns.                               *)
(***************************************************************************)
CaptureNeverBlocked ==
    /\ held # None ~> (held = None \/ capPc = "done")
    /\ stop ~> capPc \in {"none", "done"}

(***************************************************************************)
(* The next three need main and the clients scheduled as well: they assume *)
(* it themselves, so that the one above is checked without.                *)
(***************************************************************************)
Scheduled == MainFairness /\ ClientFairness

(***************************************************************************)
(* When main leaves its accept loop it gets to the end: neither the join   *)
(* of the capture thread nor a client blocks the shutdown.                 *)
(***************************************************************************)
ShutdownCompletes ==
    Scheduled => (mainPc = "out" ~> mainPc \in {"exit", "crashed"})

(***************************************************************************)
(* A frame reaches a waiting viewer: a stream client that waits while a    *)
(* frame newer than its last one is there goes on to send it, unless the   *)
(* service stops or the copy cannot be allocated.                          *)
(***************************************************************************)
Waiting(c) == pc[c] \in {"wait", "asleep", "woken", "timedout"}

NewFrameIsSent ==
    Scheduled =>
        \A c \in Clients : Waiting(c) /\ HasNew(c) ~> pc[c] = "send" \/ stop

(***************************************************************************)
(* A stop reaches every client: a thread that is not in a send, where only *)
(* its peer can free it, finishes or ends in memory main took back.        *)
(***************************************************************************)
Stopped(c) == pc[c] \in {"none", "header", "send", "reply", "done", "wild"}

StopReachesClients ==
    Scheduled =>
        \A c \in Clients : stop ~> Stopped(c) \/ mainPc \in {"exit", "crashed"}

(***************************************************************************)
(* One client does not block another (full_project_plan.md:565,            *)
(* progress.md:459): a connection whose request is there is accepted,      *)
(* unless the service ends first.                                          *)
(***************************************************************************)
RequestIsAccepted ==
    \A c \in Clients :
        fd[c] = "pending" /\ path[c] # None ~> fd[c] # "pending" \/ c \in gone

-----------------------------------------------------------------------------
(* Claims of the documents the code does not keep                          *)

(***************************************************************************)
(* Closing one browser does not affect another (full_project_plan.md:571): *)
(* with a camera that works, the stream of a viewer that stays connected   *)
(* does not end.                                                           *)
(***************************************************************************)
ClosingOneLeavesOthers ==
    \A c \in Clients :
        path[c] = "stream" /\ pc[c] = "fin" => failed \/ c \in gone
=============================================================================
