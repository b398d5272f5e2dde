----------------------------- MODULE HttpService -----------------------------
(***************************************************************************)
(* The HTTP MJPEG service of src/standardized_camera_app/src/v4l2_capture.c *)
(* together with the accept side of stream_http_mjpeg.c: the main thread   *)
(* (camera_capture_http_mjpeg), the capture thread                         *)
(* (http_service_capture_thread) and one thread per HTTP connection        *)
(* (http_client_thread), which share one http_service_t under one mutex    *)
(* and one condition variable.                                             *)
(*                                                                         *)
(* Every critical section of service->mutex is one action, and so is every *)
(* call that can block or fail outside of it.  The condition variable is   *)
(* the set of clients whose pc is "asleep".  A frame is its V4L2 sequence  *)
(* number; frame copies live in heap blocks, so that who owns and who      *)
(* frees a copy is visible.                                                *)
(*                                                                         *)
(* The LCD and motion step between publishing a frame and counting it      *)
(* touches none of this state and is module MotionPipeline.                *)
(***************************************************************************)
EXTENDS Naturals, FiniteSets

CONSTANTS
    Clients,     \* HTTP connections; each carries one request
    Buffers,     \* the mmapped V4L2 buffers
    NumBlocks,   \* heap blocks malloc can hand out for frame copies
    MaxSeq,      \* bound: sequence number of the driver's last frame
    Requests,    \* the request paths the peers use
    Continuous,  \* config.frame_count = 0
    FbPreview,   \* config.fb_preview
    Faults,      \* the kinds of system failure that may happen
    None

RequestKinds == {"stream", "snapshot", "metrics", "other"}
FaultKinds == {"setup", "thread", "listen", "accept", "malloc", "driver"}

ASSUME HttpAssumption ==
    /\ IsFiniteSet(Clients)
    /\ None \notin Clients \cup Buffers \cup Nat
    /\ NumBlocks \in Nat
    /\ MaxSeq \in Nat
    /\ Requests \subseteq RequestKinds
    /\ Continuous \in BOOLEAN /\ FbPreview \in BOOLEAN
    /\ Faults \subseteq FaultKinds

Block == 1..NumBlocks
Sequence == 0..MaxSeq

VARIABLES
    \* main thread
    mainPc,
    serving,     \* the connection main is handling, or None
    listening,   \* server_fd is open
    display,     \* display is not NULL: the framebuffer is open
    \* http_service_t
    svc,         \* "uninit", "live" or "destroyed"
    stop,
    failed,
    latest,      \* the block of service->latest, or None while !has_frame
    connected,   \* connected_clients
    captured,    \* captured_frames
    empties,     \* empty_count
    dropped,     \* history: frames that could not be copied
    \* capture thread and driver
    capPc,
    queued,      \* buffers owned by the driver
    held,        \* the buffer between DQBUF and QBUF, or None
    nextSeq,     \* sequence number of the next frame the driver hands out
    capCopy,     \* the block allocated for the frame to publish, or None
    \* client threads
    pc,
    lastSeq,     \* last_sequence
    copy,        \* the block of the thread's own frame copy, or None
    \* sockets and peers
    fd,          \* "none", "pending" in the backlog, "open" or "closed"
    path,        \* the request the peer sent, or None while it is silent
    gone,        \* peers that closed their end, or whose connection broke
    \* heap: the sequence number of the frame in the block, or None if free
    mem

mainVars == <<mainPc, serving, listening, display>>
svcVars == <<svc, stop, failed, latest, connected>>
capVars == <<capPc, queued, held, nextSeq, capCopy, captured, empties, dropped>>
clientVars == <<pc, lastSeq, copy>>
netVars == <<fd, path, gone>>
vars == <<mainVars, svcVars, capVars, clientVars, netVars, mem>>

MainPcs == {"setup", "spawn", "listen", "accept", "recv", "count", "create",
            "uncount", "join", "out", "joincap", "destroy", "release",
            "exit", "crashed"}
CapturePcs == {"none", "check", "select", "copy", "publish", "tally", "qbuf",
               "leave", "done"}
ClientPcs == {"none", "header", "wait", "asleep", "woken", "timedout",
              "check", "send", "copy", "read", "text", "reply", "fin", "close",
              "done", "wild"}

\* The next thing these threads do is to use the http_service_t.
UsesService == {"wait", "woken", "timedout", "check", "copy", "read", "text",
                "fin"}

Init ==
    /\ mainPc = "setup" /\ serving = None /\ listening = FALSE
    /\ display = FALSE
    /\ svc = "uninit" /\ stop = FALSE /\ failed = FALSE
    /\ latest = None /\ connected = 0 /\ captured = 0 /\ empties = 0
    /\ dropped = 0
    /\ capPc = "none" /\ queued = Buffers /\ held = None
    /\ nextSeq = 0 /\ capCopy = None
    /\ pc = [c \in Clients |-> "none"]
    /\ lastSeq = [c \in Clients |-> 0]
    /\ copy = [c \in Clients |-> None]
    /\ fd = [c \in Clients |-> "none"]
    /\ path = [c \in Clients |-> None]
    /\ gone = {}
    /\ mem = [b \in Block |-> None]

-----------------------------------------------------------------------------
(* Heap, condition variable and frame tests                                *)

\* malloc: taking the least free block loses nothing, blocks are alike.
Malloc(b) == mem[b] = None /\ \A a \in Block : mem[a] = None => b <= a
MallocFails == "malloc" \in Faults \/ \A b \in Block : mem[b] # None

\* pthread_cond_broadcast
Broadcast ==
    pc' = [c \in Clients |-> IF pc[c] = "asleep" THEN "woken" ELSE pc[c]]

\* Mutant of HasNew: a frame the client has already sent counts as new.
HasAny(c) == latest # None

\* What http_service_wait_latest waits for, besides stop.
HasNew(c) == latest # None /\ mem[latest] # lastSeq[c]

\* Mutant of HeldSeq: the number of the frame after it.
HeldSeqOffByOne == nextSeq

\* Sequence number of the frame in the held buffer.
HeldSeq == nextSeq - 1

-----------------------------------------------------------------------------
(* The peers: browsers and curl                                            *)

Connect(c) ==
    /\ listening /\ fd[c] = "none"
    /\ fd' = [fd EXCEPT ![c] = "pending"]
    /\ UNCHANGED <<mainVars, svcVars, capVars, clientVars, path, gone, mem>>

SendRequest(c) ==
    /\ fd[c] \in {"pending", "open"} /\ path[c] = None /\ c \notin gone
    /\ \E r \in Requests : path' = [path EXCEPT ![c] = r]
    /\ UNCHANGED <<mainVars, svcVars, capVars, clientVars, fd, gone, mem>>

\* It may come right before any send, so that every send may fail.
HangUp(c) ==
    /\ fd[c] \in {"pending", "open"} /\ c \notin gone
    /\ gone' = gone \cup {c}
    /\ UNCHANGED <<mainVars, svcVars, capVars, clientVars, fd, path, mem>>

Peer(c) == Connect(c) \/ SendRequest(c) \/ HangUp(c)

-----------------------------------------------------------------------------
(* Capture thread: http_service_capture_thread                             *)

CaptureCheck ==
    /\ capPc = "check"
    /\ capPc' = IF stop THEN "leave" ELSE "select"
    /\ UNCHANGED <<mainVars, svcVars, queued, held, nextSeq, capCopy, captured,
                   empties, dropped, clientVars, netVars, mem>>

\* select times out; timeout_count has no reader but the metrics text.
SelectTimeout ==
    /\ capPc = "select"
    /\ capPc' = "check"
    /\ UNCHANGED <<mainVars, svcVars, queued, held, nextSeq, capCopy, captured,
                   empties, dropped, clientVars, netVars, mem>>

\* select returns ready and VIDIOC_DQBUF hands over a filled buffer.
Dequeue ==
    /\ capPc = "select" /\ nextSeq <= MaxSeq
    /\ \E b \in queued : held' = b /\ queued' = queued \ {b}
    /\ nextSeq' = nextSeq + 1
    /\ \/ capPc' = "copy" /\ UNCHANGED empties
       \/ capPc' = "qbuf" /\ empties' = empties + 1  \* bytesused = 0
    /\ UNCHANGED <<mainVars, svcVars, capCopy, captured, dropped, clientVars,
                   netVars, mem>>

\* select, VIDIOC_DQBUF or VIDIOC_QBUF fails: failed is set and the loop ends,
\* after a failed QBUF with the buffer still out of the driver's queue.
DriverFails ==
    /\ capPc \in {"select", "qbuf"} /\ "driver" \in Faults
    /\ failed' = TRUE /\ Broadcast
    /\ capPc' = "leave"
    /\ UNCHANGED <<mainVars, svc, stop, latest, connected, queued, held,
                   nextSeq, capCopy, captured, empties, dropped, lastSeq, copy,
                   netVars, mem>>

\* http_service_update_latest, before the lock: the frame is copied.
CopyFrame ==
    /\ capPc = "copy"
    /\ \E b \in Block :
          Malloc(b) /\ mem' = [mem EXCEPT ![b] = HeldSeq] /\ capCopy' = b
    /\ capPc' = "publish"
    /\ UNCHANGED <<mainVars, svcVars, queued, held, nextSeq, captured, empties,
                   dropped, clientVars, netVars>>

\* Mutant of CopyFrameFails: the buffer is not requeued.
CopyFrameFailsKeepsBuffer ==
    /\ capPc = "copy" /\ MallocFails
    /\ failed' = TRUE /\ Broadcast
    /\ dropped' = dropped + 1
    /\ capPc' = "check"
    /\ UNCHANGED <<mainVars, svc, stop, latest, connected, queued, held,
                   nextSeq, capCopy, captured, empties, lastSeq, copy, netVars,
                   mem>>

\* The copy cannot be allocated: failed is set, but the loop goes on.
CopyFrameFails ==
    /\ capPc = "copy" /\ MallocFails
    /\ failed' = TRUE /\ Broadcast
    /\ dropped' = dropped + 1
    /\ capPc' = "qbuf"
    /\ UNCHANGED <<mainVars, svc, stop, latest, connected, queued, held,
                   nextSeq, capCopy, captured, empties, lastSeq, copy, netVars,
                   mem>>

\* Mutants of Publish: no broadcast; clients send with the mutex held.
PublishWithoutBroadcast ==
    /\ capPc = "publish"
    /\ mem' = [b \in Block |-> IF b = latest THEN None ELSE mem[b]]
    /\ latest' = capCopy /\ capCopy' = None
    /\ capPc' = "tally"
    /\ UNCHANGED <<mainVars, svc, stop, failed, connected, queued, held,
                   nextSeq, captured, empties, dropped, clientVars, netVars>>

PublishWaitsForSends ==
    /\ capPc = "publish" /\ \A c \in Clients : pc[c] # "send"
    /\ mem' = [b \in Block |-> IF b = latest THEN None ELSE mem[b]]
    /\ latest' = capCopy /\ capCopy' = None
    /\ Broadcast
    /\ capPc' = "tally"
    /\ UNCHANGED <<mainVars, svc, stop, failed, connected, queued, held,
                   nextSeq, captured, empties, dropped, lastSeq, copy, netVars>>

\* http_service_update_latest, under the lock.
Publish ==
    /\ capPc = "publish"
    /\ mem' = [b \in Block |-> IF b = latest THEN None ELSE mem[b]]
    /\ latest' = capCopy /\ capCopy' = None
    /\ Broadcast
    /\ capPc' = "tally"
    /\ UNCHANGED <<mainVars, svc, stop, failed, connected, queued, held,
                   nextSeq, captured, empties, dropped, lastSeq, copy, netVars>>

CountFrame ==
    /\ capPc = "tally"
    /\ captured' = captured + 1
    /\ capPc' = "qbuf"
    /\ UNCHANGED <<mainVars, svcVars, queued, held, nextSeq, capCopy, empties,
                   dropped, clientVars, netVars, mem>>

Requeue ==
    /\ capPc = "qbuf"
    /\ queued' = queued \cup {held} /\ held' = None
    /\ capPc' = "check"
    /\ UNCHANGED <<mainVars, svcVars, nextSeq, capCopy, captured, empties,
                   dropped, clientVars, netVars, mem>>

\* The http_service_stop after the loop.
CaptureLeaves ==
    /\ capPc = "leave"
    /\ stop' = TRUE /\ Broadcast
    /\ capPc' = "done"
    /\ UNCHANGED <<mainVars, svc, failed, latest, connected, queued, held,
                   nextSeq, capCopy, captured, empties, dropped, lastSeq, copy,
                   netVars, mem>>

Capture ==
    \/ CaptureCheck \/ SelectTimeout \/ Dequeue \/ DriverFails
    \/ CopyFrame \/ CopyFrameFails \/ Publish \/ CountFrame
    \/ Requeue \/ CaptureLeaves

-----------------------------------------------------------------------------
(* Client threads: http_client_thread                                      *)

\* The pc at which a thread serving a request of each kind starts.
FirstPc == [stream |-> "header", snapshot |-> "copy", metrics |-> "read",
            other |-> "reply"]

\* http_mjpeg_send_stream_header; a send fails only on a peer that is gone.
SendHeader(c) ==
    /\ pc[c] = "header"
    /\ \/ pc' = [pc EXCEPT ![c] = "wait"]
       \/ c \in gone /\ pc' = [pc EXCEPT ![c] = "fin"]
    /\ UNCHANGED <<mainVars, svcVars, capVars, lastSeq, copy, netVars, mem>>

\* Mutants of TakeLatest: the data is shared instead of copied; the result
\* stays -1 after a copy.
TakeLatestShares(c) ==
    \/ /\ ~stop /\ HasNew(c)
       /\ copy' = [copy EXCEPT ![c] = latest]
       /\ lastSeq' = [lastSeq EXCEPT ![c] = mem[latest]]
       /\ pc' = [pc EXCEPT ![c] = "send"]
       /\ UNCHANGED mem
    \/ /\ stop \/ ~HasNew(c)
       /\ pc' = [pc EXCEPT ![c] = "check"]
       /\ UNCHANGED <<mem, copy, lastSeq>>

TakeLatestReturnsError(c) ==
    /\ pc' = [pc EXCEPT ![c] = "check"]
    /\ IF ~stop /\ HasNew(c)
       THEN lastSeq' = [lastSeq EXCEPT ![c] = mem[latest]]
       ELSE UNCHANGED lastSeq
    /\ UNCHANGED <<mem, copy>>

\* The end of http_service_wait_latest: take a copy of a new frame, or return
\* -1 because the service stops, nothing is new or the copy cannot be allocated.
TakeLatest(c) ==
    \/ /\ ~stop /\ HasNew(c)
       /\ \E b \in Block :
             /\ Malloc(b)
             /\ mem' = [mem EXCEPT ![b] = mem[latest]]
             /\ copy' = [copy EXCEPT ![c] = b]
       /\ lastSeq' = [lastSeq EXCEPT ![c] = mem[latest]]
       /\ pc' = [pc EXCEPT ![c] = "send"]
    \/ /\ stop \/ ~HasNew(c) \/ MallocFails
       /\ pc' = [pc EXCEPT ![c] = "check"]
       /\ UNCHANGED <<mem, copy, lastSeq>>

\* One turn of the while loop of http_service_wait_latest.
WaitLatest(c) ==
    /\ pc[c] \in {"wait", "woken"} /\ svc = "live"
    /\ IF stop \/ HasNew(c)
       THEN TakeLatest(c)
       ELSE /\ pc' = [pc EXCEPT ![c] = "asleep"]
            /\ UNCHANGED <<mem, copy, lastSeq>>
    /\ UNCHANGED <<mainVars, svcVars, capVars, netVars>>

\* The deadline passes; the thread still has to take the mutex again.
DeadlinePasses(c) ==
    /\ pc[c] = "asleep"
    /\ pc' = [pc EXCEPT ![c] = "timedout"]
    /\ UNCHANGED <<mainVars, svcVars, capVars, lastSeq, copy, netVars, mem>>

TimedOut(c) ==
    /\ pc[c] = "timedout" /\ svc = "live"
    /\ TakeLatest(c)
    /\ UNCHANGED <<mainVars, svcVars, capVars, netVars>>

\* Mutants of CheckStop: every -1 of wait_latest ends the stream; none does.
CheckStopAlways(c) ==
    /\ pc[c] = "check" /\ svc = "live"
    /\ pc' = [pc EXCEPT ![c] = "fin"]
    /\ UNCHANGED <<mainVars, svcVars, capVars, lastSeq, copy, netVars, mem>>

CheckStopLeftOut(c) ==
    /\ pc[c] = "check" /\ svc = "live"
    /\ pc' = [pc EXCEPT ![c] = "wait"]
    /\ UNCHANGED <<mainVars, svcVars, capVars, lastSeq, copy, netVars, mem>>

CheckStop(c) ==
    /\ pc[c] = "check" /\ svc = "live"
    /\ pc' = [pc EXCEPT ![c] = IF stop \/ failed THEN "fin" ELSE "wait"]
    /\ UNCHANGED <<mainVars, svcVars, capVars, lastSeq, copy, netVars, mem>>

\* Mutant of SendFrame: the frame is not released when the send fails.
SendFrameLeaks(c) ==
    /\ pc[c] = "send"
    /\ \/ /\ pc' = [pc EXCEPT ![c] = "wait"]
          /\ mem' = [mem EXCEPT ![copy[c]] = None]
       \/ c \in gone /\ pc' = [pc EXCEPT ![c] = "fin"] /\ UNCHANGED mem
    /\ copy' = [copy EXCEPT ![c] = None]
    /\ UNCHANGED <<mainVars, svcVars, capVars, lastSeq, netVars>>

\* http_mjpeg_send_frame and the frame_release after it.
SendFrame(c) ==
    /\ pc[c] = "send"
    /\ \/ pc' = [pc EXCEPT ![c] = "wait"]
       \/ c \in gone /\ pc' = [pc EXCEPT ![c] = "fin"]
    /\ mem' = [mem EXCEPT ![copy[c]] = None]
    /\ copy' = [copy EXCEPT ![c] = None]
    /\ UNCHANGED <<mainVars, svcVars, capVars, lastSeq, netVars>>

\* http_service_copy_latest; without a copy the answer is a 503.
CopyLatest(c) ==
    /\ pc[c] = "copy" /\ svc = "live"
    /\ \/ /\ latest # None
          /\ \E b \in Block :
                /\ Malloc(b)
                /\ mem' = [mem EXCEPT ![b] = mem[latest]]
                /\ copy' = [copy EXCEPT ![c] = b]
       \/ (latest = None \/ MallocFails) /\ UNCHANGED <<mem, copy>>
    /\ pc' = [pc EXCEPT ![c] = "reply"]
    /\ UNCHANGED <<mainVars, svcVars, capVars, lastSeq, netVars>>

\* The critical section of send_http_service_metrics only reads,
ReadMetrics(c) ==
    /\ pc[c] = "read" /\ svc = "live"
    /\ pc' = [pc EXCEPT ![c] = "text"]
    /\ UNCHANGED <<mainVars, svcVars, capVars, lastSeq, copy, netVars, mem>>

\* and so does the snprintf after it, of service->display once more.
FormatMetrics(c) ==
    /\ pc[c] = "text" /\ svc = "live"
    /\ pc' = [pc EXCEPT ![c] = "reply"]
    /\ UNCHANGED <<mainVars, svcVars, capVars, lastSeq, copy, netVars, mem>>

\* Mutant of Reply: the snapshot is not released.
ReplyLeaks(c) ==
    /\ pc[c] = "reply"
    /\ copy' = [copy EXCEPT ![c] = None]
    /\ pc' = [pc EXCEPT ![c] = "fin"]
    /\ UNCHANGED <<mainVars, svcVars, capVars, lastSeq, netVars, mem>>

\* The response, sent or not, ends a request other than a stream.
Reply(c) ==
    /\ pc[c] = "reply"
    /\ mem' = [b \in Block |-> IF b = copy[c] THEN None ELSE mem[b]]
    /\ copy' = [copy EXCEPT ![c] = None]
    /\ pc' = [pc EXCEPT ![c] = "fin"]
    /\ UNCHANGED <<mainVars, svcVars, capVars, lastSeq, netVars>>

Decremented == IF connected > 0 THEN connected - 1 ELSE 0

Finish(c) ==
    /\ pc[c] = "fin" /\ svc = "live"
    /\ connected' = Decremented
    /\ pc' = [pc EXCEPT ![c] = "close"]
    /\ UNCHANGED <<mainVars, svc, stop, failed, latest, capVars, lastSeq, copy,
                   netVars, mem>>

CloseClient(c) ==
    /\ pc[c] = "close"
    /\ fd' = [fd EXCEPT ![c] = "closed"]
    /\ pc' = [pc EXCEPT ![c] = "done"]
    /\ UNCHANGED <<mainVars, svcVars, capVars, lastSeq, copy, path, gone, mem>>

\* A thread that uses the destroyed http_service_t, whose memory main's stack
\* reuses: undefined, here a thread that never comes back or a crash.
UseDestroyed(c) ==
    /\ pc[c] \in UsesService /\ svc = "destroyed"
    /\ pc' = [pc EXCEPT ![c] = "wild"]
    /\ mainPc' \in {mainPc, "crashed"}
    /\ UNCHANGED <<serving, listening, display, svcVars, capVars, lastSeq, copy,
                   netVars, mem>>

\* What the thread does without the help of its peer.
Local(c) ==
    \/ WaitLatest(c) \/ DeadlinePasses(c) \/ TimedOut(c) \/ CheckStop(c)
    \/ CopyLatest(c) \/ ReadMetrics(c) \/ FormatMetrics(c)
    \/ Finish(c) \/ CloseClient(c) \/ UseDestroyed(c)

\* What may block for as long as a slow peer does not read.
Send(c) == SendHeader(c) \/ SendFrame(c) \/ Reply(c)

-----------------------------------------------------------------------------
(* Main thread: camera_capture_http_mjpeg and the clean-up of main()        *)

MainGoes(to) == mainPc' = to

\* Opening the framebuffer, the motion directory and http_service_init; whatever
\* fails, what is open is left to the label out.
Setup ==
    /\ mainPc = "setup"
    /\ \/ MainGoes("spawn") /\ svc' = "live" /\ display' = FbPreview
       \/ /\ "setup" \in Faults /\ MainGoes("out")
          /\ display' \in {FALSE, FbPreview} /\ UNCHANGED svc
    /\ UNCHANGED <<serving, listening, stop, failed, latest, connected, capVars,
                   clientVars, netVars, mem>>

SpawnCapture ==
    /\ mainPc = "spawn"
    /\ \/ MainGoes("listen") /\ capPc' = "check"
       \/ "thread" \in Faults /\ MainGoes("out") /\ UNCHANGED capPc
    /\ UNCHANGED <<serving, listening, display, svcVars, queued, held, nextSeq,
                   capCopy, captured, empties, dropped, clientVars, netVars,
                   mem>>

Listen ==
    /\ mainPc = "listen"
    /\ \/ MainGoes("accept") /\ listening' = TRUE
       \/ "listen" \in Faults /\ MainGoes("out") /\ UNCHANGED listening
    /\ UNCHANGED <<serving, display, svcVars, capVars, clientVars, netVars,
                   mem>>

\* accept blocks until a connection is pending; its failure ends the service.
Accept ==
    /\ mainPc = "accept"
    /\ \E c \in Clients :
          /\ fd[c] = "pending"
          /\ fd' = [fd EXCEPT ![c] = "open"]
          /\ serving' = c
    /\ MainGoes("recv")
    /\ UNCHANGED <<listening, display, svcVars, capVars, clientVars, path, gone,
                   mem>>

AcceptFails ==
    /\ mainPc = "accept" /\ "accept" \in Faults
    /\ MainGoes("out")
    /\ UNCHANGED <<serving, listening, display, svcVars, capVars, clientVars,
                   netVars, mem>>

CloseServing ==
    /\ fd' = [fd EXCEPT ![serving] = "closed"]
    /\ serving' = None
    /\ MainGoes("out")

\* recv blocks until the peer has sent something or closed its end.
Receive ==
    /\ mainPc = "recv" /\ path[serving] # None
    /\ MainGoes("count")
    /\ UNCHANGED <<serving, listening, display, svcVars, capVars, clientVars,
                   netVars, mem>>

\* recv returns 0 or an error, or the client arguments cannot be allocated:
\* the connection is closed and the service ends.
ReceiveFails ==
    /\ mainPc = "recv"
    /\ serving \in gone \/ (path[serving] # None /\ "malloc" \in Faults)
    /\ CloseServing
    /\ UNCHANGED <<listening, display, svcVars, capVars, clientVars, path, gone,
                   mem>>

CountClient ==
    /\ mainPc = "count"
    /\ connected' = connected + 1
    /\ MainGoes("create")
    /\ UNCHANGED <<serving, listening, display, svc, stop, failed, latest,
                   capVars, clientVars, netVars, mem>>

\* Mutant of CreateClient: the thread is detached in both modes.
CreateClientDetached ==
    /\ mainPc = "create"
    /\ pc' = [pc EXCEPT ![serving] = FirstPc[path[serving]]]
    /\ MainGoes(IF Continuous THEN "accept" ELSE "out") /\ serving' = None
    /\ UNCHANGED <<listening, display, svcVars, capVars, lastSeq, copy, netVars,
                   mem>>

\* pthread_create, then pthread_detach or, with a frame count, pthread_join.
CreateClient ==
    /\ mainPc = "create"
    /\ pc' = [pc EXCEPT ![serving] = FirstPc[path[serving]]]
    /\ IF Continuous
       THEN MainGoes("accept") /\ serving' = None
       ELSE MainGoes("join") /\ UNCHANGED serving
    /\ UNCHANGED <<listening, display, svcVars, capVars, lastSeq, copy, netVars,
                   mem>>

CreateClientFails ==
    /\ mainPc = "create" /\ "thread" \in Faults
    /\ MainGoes("uncount")
    /\ UNCHANGED <<serving, listening, display, svcVars, capVars, clientVars,
                   netVars, mem>>

\* Mutants of UncountClient: the count is not taken back; the socket is not
\* closed.
UncountClientForgets ==
    /\ mainPc = "uncount"
    /\ CloseServing
    /\ UNCHANGED <<listening, display, svcVars, capVars, clientVars, path, gone,
                   mem>>

UncountClientLeavesOpen ==
    /\ mainPc = "uncount"
    /\ connected' = Decremented
    /\ MainGoes("out") /\ serving' = None
    /\ UNCHANGED <<listening, display, svc, stop, failed, latest, capVars,
                   clientVars, netVars, mem>>

UncountClient ==
    /\ mainPc = "uncount"
    /\ connected' = Decremented
    /\ CloseServing
    /\ UNCHANGED <<listening, display, svc, stop, failed, latest, capVars,
                   clientVars, path, gone, mem>>

JoinClient ==
    /\ mainPc = "join" /\ pc[serving] = "done"
    /\ MainGoes("out") /\ serving' = None
    /\ UNCHANGED <<listening, display, svcVars, capVars, clientVars, netVars,
                   mem>>

\* Mutant of StopService: stop is not set.
StopServiceForgets ==
    /\ mainPc = "out"
    /\ MainGoes("joincap")
    /\ UNCHANGED <<serving, listening, display, svcVars, capVars, clientVars,
                   netVars, mem>>

\* The label out: stop the service, if there is one.
StopService ==
    /\ mainPc = "out"
    /\ IF svc = "live" THEN stop' = TRUE /\ Broadcast ELSE UNCHANGED <<stop, pc>>
    /\ MainGoes("joincap")
    /\ UNCHANGED <<serving, listening, display, svc, failed, latest, connected,
                   capVars, lastSeq, copy, netVars, mem>>

\* Mutant of JoinCapture: the capture thread is not joined.
JoinCaptureSkipped ==
    /\ mainPc = "joincap"
    /\ listening' = FALSE
    /\ fd' = [c \in Clients |-> IF fd[c] = "pending" THEN "closed" ELSE fd[c]]
    /\ MainGoes("destroy")
    /\ UNCHANGED <<serving, display, svcVars, capVars, clientVars, path, gone,
                   mem>>

\* Join the capture thread, if it was started, and close server_fd, which
\* resets the connections still in the backlog.
JoinCapture ==
    /\ mainPc = "joincap" /\ capPc \in {"none", "done"}
    /\ listening' = FALSE
    /\ fd' = [c \in Clients |-> IF fd[c] = "pending" THEN "closed" ELSE fd[c]]
    /\ MainGoes("destroy")
    /\ UNCHANGED <<serving, display, svcVars, capVars, clientVars, path, gone,
                   mem>>

\* http_service_destroy and framebuffer_display_close.
DestroyService ==
    /\ mainPc = "destroy"
    /\ IF svc = "live"
       THEN /\ svc' = "destroyed" /\ latest' = None
            /\ mem' = [b \in Block |-> IF b = latest THEN None ELSE mem[b]]
       ELSE UNCHANGED <<svc, latest, mem>>
    /\ display' = FALSE
    /\ MainGoes("release")
    /\ UNCHANGED <<serving, listening, stop, failed, connected, capVars,
                   clientVars, netVars>>

\* camera_stop and camera_close take the buffers from the driver; main returns
\* and the process ends with every thread it still has.
ReleaseCamera ==
    /\ mainPc = "release"
    /\ queued' = {} /\ held' = None
    /\ MainGoes("exit")
    /\ UNCHANGED <<serving, listening, display, svcVars, capPc, nextSeq,
                   capCopy, captured, empties, dropped, clientVars, netVars,
                   mem>>

Main ==
    \/ Setup \/ SpawnCapture \/ Listen \/ Accept \/ AcceptFails
    \/ Receive \/ ReceiveFails \/ CountClient
    \/ CreateClient \/ CreateClientFails \/ UncountClient \/ JoinClient
    \/ StopService \/ JoinCapture \/ DestroyService \/ ReleaseCamera

-----------------------------------------------------------------------------

Running == mainPc \notin {"exit", "crashed"}

Next ==
    \/ /\ Running
       /\ \/ Main
          \/ Capture
          \/ \E c \in Clients : Local(c) \/ Send(c) \/ Peer(c)
    \/ ~Running /\ UNCHANGED vars

Spec == Init /\ [][Next]_vars

(***************************************************************************)
(* Fairness.  Each thread is scheduled and each of its calls returns when  *)
(* it can: select and pthread_cond_timedwait within two seconds, ioctl and *)
(* malloc at once, a mutex because every critical section is short and     *)
(* waits for nothing.  Nothing is assumed of a peer: a connection may stay *)
(* silent forever (recv) and a send may block forever.                     *)
(***************************************************************************)
CaptureFairness == WF_vars(Running /\ Capture)
MainFairness == WF_vars(Running /\ Main)
ClientFairness == \A c \in Clients : WF_vars(Running /\ Local(c))

\* What holds of CaptureSpec holds even if main and every client stand still.
CaptureSpec == Spec /\ CaptureFairness
FairSpec == CaptureSpec /\ MainFairness /\ ClientFairness
=============================================================================
