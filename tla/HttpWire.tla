------------------------------ MODULE HttpWire ------------------------------
(***************************************************************************)
(* One connection of the HTTP service, byte by byte: send_all and the      *)
(* answers of stream_http_mjpeg.c built from it, as http_client_thread     *)
(* calls them, over a socket that takes as much as it has room for, whose  *)
(* calls may be interrupted, and whose peer reads when it likes and may    *)
(* leave at any time.  A send may fail at any time, and the end of the     *)
(* process takes a detached thread with it.  Each sending step of module   *)
(* HttpService is a whole message here.                                    *)
(*                                                                         *)
(* A message is the sequence of the sizes of its parts, one for each call  *)
(* of send_all.  A byte is <<message, part, offset>>, which tells where in *)
(* the answer it belongs, whatever order it is sent in.                    *)
(***************************************************************************)
EXTENDS Naturals, Sequences

CONSTANTS
    HeaderSize, PartHeaderSize, TrailerSize,  \* bytes of the fixed parts
    BodySizes,    \* bytes of a JPEG or a text
    Window,       \* bytes the socket holds until the peer has read them
    MaxMessages   \* bound: messages of one connection

ASSUME WireAssumption ==
    /\ {HeaderSize, PartHeaderSize, TrailerSize} \cup BodySizes \subseteq Nat \ {0}
    /\ Window \in Nat \ {0} /\ MaxMessages \in Nat

VARIABLES
    kind,      \* "stream" or "single": what the path asks for
    unread,    \* the request has more bytes than one recv took
    detached,  \* frame_count is 0: main does not wait for the thread
    pc,
    error,     \* history: a send returned 0, or -1 with an errno but EINTR
    \* the answer
    messages,  \* history: the messages begun
    part,      \* the part of the last of them being sent
    sent,      \* sent of send_all: how much of the part is done
    \* the connection
    out,       \* history: the bytes put in the socket
    arrived,   \* how many of them the peer has read
    lost,      \* how many of the others it never will
    gone       \* the peer or the network has left

requestVars == <<kind, unread, detached>>
answerVars == <<messages, part, sent>>
wireVars == <<out, arrived, lost, gone>>
vars == <<requestVars, pc, error, answerVars, wireVars>>

Last(seq) == seq[Len(seq)]

Init ==
    /\ kind \in {"stream", "single"} /\ unread \in BOOLEAN /\ detached \in BOOLEAN
    /\ pc = "begin" /\ error = FALSE
    /\ messages = <<>> /\ part = 1 /\ sent = 0
    /\ out = <<>> /\ arrived = 0 /\ lost = 0 /\ gone = FALSE

-----------------------------------------------------------------------------
(* The answer                                                              *)

Message(parts) ==
    /\ messages' = Append(messages, parts)
    /\ part' = 1 /\ sent' = 0
    /\ pc' = "send"

\* http_mjpeg_send_stream_header, or the call of one of the single answers.
BeginAnswer ==
    /\ pc = "begin"
    /\ \/ kind = "stream" /\ Message(<<HeaderSize>>)
       \/ kind = "single" /\ \E size \in BodySizes : Message(<<HeaderSize, size>>)
    /\ UNCHANGED <<requestVars, error, wireVars>>

\* http_service_wait_latest has a frame for http_mjpeg_send_frame,
NextFrame ==
    /\ pc = "wait" /\ Len(messages) < MaxMessages
    /\ \E size \in BodySizes : Message(<<PartHeaderSize, size, TrailerSize>>)
    /\ UNCHANGED <<requestVars, error, wireVars>>

\* or none, because the service stops or has failed.
StreamEnds ==
    /\ pc = "wait"
    /\ pc' = "close"
    /\ UNCHANGED <<requestVars, error, answerVars, wireVars>>

-----------------------------------------------------------------------------
(* send_all                                                                *)

PartSize == Last(messages)[part]
Room == Window - (Len(out) - arrived)

\* Mutant of Took: a send that took less is taken for one that took all.
TookAll(n) == sent' = PartSize

\* sent += ret
Took(n) == sent' = sent + n

\* send takes some of the bytes, at most those there is room for.
Send(n) ==
    /\ pc = "send" /\ n <= PartSize - sent /\ n <= Room
    /\ out' = out \o [i \in 1..n |-> <<Len(messages), part, sent + i>>]
    /\ Took(n)
    /\ UNCHANGED <<requestVars, pc, error, messages, part, arrived, lost, gone>>

\* Mutants of Interrupted: the part is begun again; the call is taken for failed.
InterruptedRestarts ==
    /\ pc = "send" /\ sent < PartSize
    /\ sent' = 0
    /\ UNCHANGED <<requestVars, pc, error, messages, part, wireVars>>

InterruptedFails ==
    /\ pc = "send" /\ sent < PartSize
    /\ pc' = "close"
    /\ UNCHANGED <<requestVars, error, answerVars, wireVars>>

\* send returns -1 with EINTR: the loop goes round.
Interrupted ==
    /\ pc = "send" /\ sent < PartSize
    /\ UNCHANGED vars

\* send fails for good, with any other errno, or takes nothing; SIGPIPE is
\* ignored.  The thread leaves its loop or its call.
SendFails ==
    /\ pc = "send" /\ sent < PartSize
    /\ error' = TRUE
    /\ pc' = "close"
    /\ UNCHANGED <<requestVars, answerVars, wireVars>>

\* send_all returns 0: on to the next part.
NextPart ==
    /\ pc = "send" /\ sent = PartSize /\ part < Len(Last(messages))
    /\ part' = part + 1 /\ sent' = 0
    /\ UNCHANGED <<requestVars, pc, error, messages, wireVars>>

\* The last part: a stream waits for the next frame.
MessageSent ==
    /\ pc = "send" /\ sent = PartSize /\ part = Len(Last(messages))
    /\ pc' = IF kind = "stream" THEN "wait" ELSE "close"
    /\ UNCHANGED <<requestVars, error, answerVars, wireVars>>

\* What is left of the request makes TCP reset a connection that is closed:
\* bytes the peer has not read may be lost.
Closes ==
    IF unread THEN \E n \in arrived..Len(out) : lost' = Len(out) - n
              ELSE UNCHANGED lost

\* http_mjpeg_close
Close ==
    /\ pc = "close"
    /\ pc' = "closed"
    /\ Closes
    /\ UNCHANGED <<requestVars, error, answerVars, out, arrived, gone>>

\* main returns, for whatever reason, and the process closes the descriptors of
\* a thread that main has not joined, wherever it is.
ProcessEnds ==
    /\ detached /\ pc \notin {"closed", "killed"}
    /\ pc' = "killed"
    /\ Closes
    /\ UNCHANGED <<requestVars, error, answerVars, out, arrived, gone>>

-----------------------------------------------------------------------------
(* The peer                                                                *)

PeerReads ==
    /\ ~gone
    /\ \E n \in arrived+1..Len(out)-lost : arrived' = n
    /\ UNCHANGED <<requestVars, pc, error, answerVars, out, lost, gone>>

PeerLeaves ==
    /\ ~gone /\ gone' = TRUE
    /\ UNCHANGED <<requestVars, pc, error, answerVars, out, arrived, lost>>

Ended ==
    /\ pc \in {"closed", "killed"} /\ (gone \/ arrived = Len(out) - lost)
    /\ UNCHANGED vars

-----------------------------------------------------------------------------

Sends == \E n \in 1..Window : Send(n)

\* What the thread does if no call fails.
Server ==
    \/ BeginAnswer \/ Sends \/ Interrupted
    \/ NextPart \/ MessageSent \/ Close

\* At the bound a stream that waits can only end.
Next ==
    \/ Server \/ SendFails
    \/ NextFrame \/ StreamEnds
    \/ ProcessEnds
    \/ PeerReads \/ PeerLeaves
    \/ Ended

Spec == Init /\ [][Next]_vars

(***************************************************************************)
(* The client thread runs as long as the process does, and the peer, until *)
(* it leaves, reads what has come.  No frame has to come, no send has to   *)
(* fail and the process need not end.                                      *)
(***************************************************************************)
FairSpec == Spec /\ WF_vars(Server) /\ WF_vars(PeerReads)

-----------------------------------------------------------------------------
(* Properties                                                              *)

\* The byte that comes after a byte of the answer.
After(b) ==
    IF b[3] < messages[b[1]][b[2]] THEN <<b[1], b[2], b[3] + 1>>
    ELSE IF b[2] < Len(messages[b[1]]) THEN <<b[1], b[2] + 1, 1>>
    ELSE <<b[1] + 1, 1, 1>>

(***************************************************************************)
(* However the socket cuts the sends, whatever call is interrupted, and    *)
(* although header, picture and trailer are sent by calls of their own,    *)
(* the peer is sent the bytes of the messages each once and in order       *)
(* (stream_http_mjpeg.c:15-27).                                            *)
(***************************************************************************)
BytesInOrder ==
    out # <<>> =>
        /\ out[1] = <<1, 1, 1>>
        /\ \A i \in 1..Len(out)-1 : out[i + 1] = After(out[i])

(***************************************************************************)
(* An answer is cut short for a reason only: a send failed, or the process *)
(* ended in continuous mode, whose threads nobody waits for.  A connection *)
(* that its thread closes without an error, whatever the socket took at a  *)
(* time and whatever call was interrupted, ends with a whole message: a    *)
(* Content-Length is kept, and a boundary follows a whole JPEG.  And with  *)
(* a frame count the end of the process cuts nothing (v4l2_capture.c:1174).*)
(***************************************************************************)
LastByte(m) == <<m, Len(messages[m]), Last(messages[m])>>

Cut == out = <<>> \/ Last(out) # LastByte(Len(messages))

CutShortForAReason ==
    pc \in {"closed", "killed"} /\ Cut =>
        error \/ (detached /\ pc = "killed")

(***************************************************************************)
(* A peer that reads gets every message that is begun, however small the   *)
(* window is, as long as no send fails and the process goes on: with it    *)
(* the send a client thread waits in comes back.  A request longer than    *)
(* one recv costs a message only when the connection is closed, so that a  *)
(* stream reaches its peer all the same (stream_http_mjpeg.c:109).         *)
(***************************************************************************)
Got(m) == m <= Len(messages) /\ \E i \in 1..arrived : out[i] = LastByte(m)

ReaderIsServed ==
    \A m \in 1..MaxMessages :
        Len(messages) = m ~>
            \/ Got(m)
            \/ gone \/ error \/ pc = "killed"
            \/ unread /\ pc = "closed"
=============================================================================
