---------------------------- MODULE CaptureDevice ----------------------------
(***************************************************************************)
(* One capture of main() of main.c: camera_open, camera_configure,         *)
(* camera_start, the loop of camera_capture_to_file or                     *)
(* camera_capture_to_framebuffer, camera_stop and camera_close, with a     *)
(* failure at every system call.  The HTTP service is one step here; what  *)
(* it does in between is module HttpService.                               *)
(*                                                                         *)
(* A frame is its size: 0 for an empty buffer, 1 for less than a picture   *)
(* of raw pixels, 2 for a whole one.  The driver may change the            *)
(* v4l2_buffer it is given by VIDIOC_QBUF: the repository's notes tell of  *)
(* frames that were reported with size 0 for that reason.                  *)
(***************************************************************************)
EXTENDS Naturals, Sequences, FiniteSets

CONSTANTS
    MaxBuffers,   \* CAMERA_MAX_BUFFERS
    Grants,       \* buffer counts the driver may grant for VIDIOC_REQBUFS
    FrameCounts,  \* values of config.frame_count; 0 is continuous
    MaxFrames,    \* bound: frames with data
    None

ASSUME DeviceAssumption ==
    /\ MaxBuffers \in Nat /\ Grants \subseteq 0..MaxBuffers
    /\ FrameCounts \subseteq Nat /\ MaxFrames \in Nat
    /\ None \notin Nat

VARIABLES
    mode,       \* "file", "frames" (--save-frames), "nosave", "preview", "http"
    wanted,     \* config.frame_count
    format,     \* the pixel format the driver settled on
    pc,
    index,      \* i of the loops over the buffers
    status,     \* what the capture, and then main, returns: TRUE is success
    \* camera_context_t
    device,     \* fd # -1
    granted,    \* buffer_count
    mapped,     \* the buffers with start # NULL
    \* the driver
    streaming,
    queued,     \* buffers the driver may fill
    \* locals of the capture loop
    held,       \* the buffer between DQBUF and QBUF, or None
    buf,        \* bytesused in the v4l2_buffer
    bytesused,  \* the copy of it
    count,
    open,       \* what else the loop has: "file", "rgb565", "display"
    \* outside
    written,    \* sizes of the frames in the output, or on the display
    reported    \* sizes printed after the frame was counted

deviceVars == <<device, granted, mapped, index, format>>
driverVars == <<streaming, queued>>
loopVars == <<held, buf, bytesused, count>>
outVars == <<open, written, reported>>
setting == <<mode, wanted>>
vars == <<setting, deviceVars, driverVars, loopVars, outVars, pc, status>>

Modes == {"file", "frames", "nosave", "preview", "http"}
Formats == {"YUYV", "MJPG", "other"}
Sizes == {0, 1, 2}
All == 0..granted-1

Init ==
    /\ mode \in Modes /\ wanted \in FrameCounts /\ format \in Formats
    /\ pc = "open" /\ index = 0 /\ status = FALSE
    /\ device = FALSE /\ granted = 0 /\ mapped = {}
    /\ streaming = FALSE /\ queued = {}
    /\ held = None /\ buf = 0 /\ bytesused = 0 /\ count = 0
    /\ open = {} /\ written = <<>> /\ reported = <<>>

-----------------------------------------------------------------------------
(* camera_open, camera_configure, camera_start                             *)

Open ==
    /\ pc = "open"
    /\ \/ device' = TRUE /\ pc' = "configure"
       \/ device' = FALSE /\ pc' = "exit"      \* stat, S_ISCHR or open
    /\ UNCHANGED <<setting, granted, mapped, index, format, driverVars,
                   loopVars, outVars, status>>

\* VIDIOC_QUERYCAP, S_FMT, S_PARM (which may fail) and REQBUFS.
Configure ==
    /\ pc = "configure"
    /\ \E g \in Grants, f \in Formats :
          /\ format' = f
          /\ IF g < 2 THEN pc' = "close" /\ UNCHANGED granted
                      ELSE pc' = "map" /\ granted' = g
    /\ UNCHANGED <<setting, device, mapped, index, driverVars, loopVars,
                   outVars, status>>

ConfigureFails ==
    /\ pc = "configure"
    /\ pc' = "close"
    /\ UNCHANGED <<setting, deviceVars, driverVars, loopVars, outVars, status>>

\* The next buffer of a loop over all of them, or what comes after the loop.
Advance(here, after) ==
    IF index + 1 < granted THEN index' = index + 1 /\ pc' = here
                           ELSE index' = 0 /\ pc' = after

\* VIDIOC_QUERYBUF and mmap of one buffer.
MapBuffer ==
    /\ pc = "map"
    /\ mapped' = mapped \cup {index}
    /\ Advance("map", "queue")
    /\ UNCHANGED <<setting, device, granted, format, driverVars, loopVars,
                   outVars, status>>

MapFails ==
    /\ pc = "map"
    /\ pc' = "close"
    /\ UNCHANGED <<setting, deviceVars, driverVars, loopVars, outVars, status>>

\* VIDIOC_QBUF of one buffer in camera_start.
QueueBuffer ==
    /\ pc = "queue"
    /\ queued' = queued \cup {index}
    /\ Advance("queue", "streamon")
    /\ UNCHANGED <<setting, device, granted, mapped, format, streaming,
                   loopVars, outVars, status>>

StreamOn ==
    /\ pc = "streamon"
    /\ streaming' = TRUE
    /\ pc' = "prepare"
    /\ UNCHANGED <<setting, deviceVars, queued, loopVars, outVars, status>>

StartFails ==
    /\ pc \in {"queue", "streamon"}
    /\ pc' = "close"
    /\ UNCHANGED <<setting, deviceVars, driverVars, loopVars, outVars, status>>

-----------------------------------------------------------------------------
(* The capture loops                                                       *)

\* What the capture needs beside the camera.
Needs ==
    { r \in {"file", "rgb565", "display"} :
        \/ r = "file" /\ mode = "file"
        \/ r = "display" /\ mode = "preview"
        \/ r = "rgb565" /\ mode = "preview" /\ format = "YUYV" }

Supported ==
    /\ mode = "preview" => format \in {"YUYV", "MJPG"}
    /\ mode = "http" => format = "MJPG"

Prepare ==
    /\ pc = "prepare" /\ mode # "http" /\ Supported
    /\ open' = Needs
    /\ pc' = "loop"
    /\ UNCHANGED <<setting, deviceVars, driverVars, loopVars, written, reported,
                   status>>

\* fopen, ensure_directory, malloc, the display or the format fails.
PrepareFails ==
    /\ pc = "prepare" /\ (mode # "nosave" \/ ~Supported)
    /\ open' \in SUBSET (Needs \cap {"rgb565"})
    /\ pc' = "cleanup"
    /\ UNCHANGED <<setting, deviceVars, driverVars, loopVars, written, reported,
                   status>>

\* The whole of camera_capture_http_mjpeg.  Its capture thread may have left a
\* buffer out of the driver's queue; only with a frame count can it succeed.
Serve ==
    /\ pc = "prepare" /\ mode = "http" /\ Supported
    /\ queued' \in SUBSET queued
    /\ status' \in {FALSE, wanted > 0}
    /\ pc' = "stop"
    /\ UNCHANGED <<setting, deviceVars, streaming, loopVars, outVars>>

\* The condition of the while loop.
More == wanted = 0 \/ count < wanted

\* select times out: the loop goes round.
Timeout ==
    /\ pc = "loop" /\ More
    /\ UNCHANGED vars

CameraFails ==
    /\ pc = "loop" /\ More
    /\ pc' = "cleanup"       \* select or VIDIOC_DQBUF
    /\ UNCHANGED <<setting, deviceVars, driverVars, loopVars, outVars, status>>

Dequeue(size) ==
    /\ pc = "loop" /\ More
    /\ size > 0 => Len(written) < MaxFrames
    /\ \E b \in queued : held' = b /\ queued' = queued \ {b}
    /\ buf' = size /\ bytesused' = size
    /\ pc' = "handle"
    /\ UNCHANGED <<setting, deviceVars, streaming, count, outVars, status>>

\* Mutant of Skipped: a short frame of raw pixels is shown.
SkippedIfEmpty == bytesused = 0

\* A frame the loop warns of and gives back.
Skipped ==
    bytesused = 0 \/ (mode = "preview" /\ format = "YUYV" /\ bytesused < 2)

\* Mutant of Skip: continue without VIDIOC_QBUF.
SkipForgets ==
    /\ pc = "handle" /\ Skipped
    /\ pc' = "loop" /\ held' = None
    /\ UNCHANGED <<setting, deviceVars, driverVars, buf, bytesused, count,
                   outVars, status>>

Skip ==
    /\ pc = "handle" /\ Skipped
    /\ pc' = "giveback"
    /\ UNCHANGED <<setting, deviceVars, driverVars, loopVars, outVars, status>>

\* Write the frame, to the file or to one of its own, or show it.  The preview
\* counts and prints at once, a capture when the buffer is back.
Store ==
    /\ pc = "handle" /\ ~Skipped
    /\ written' = Append(written, bytesused)
    /\ IF mode = "preview"
       THEN count' = count + 1 /\ reported' = Append(reported, bytesused)
       ELSE UNCHANGED <<count, reported>>
    /\ pc' = IF mode = "preview" THEN "giveback" ELSE "requeue"
    /\ UNCHANGED <<setting, deviceVars, driverVars, held, buf, bytesused, open,
                   status>>

\* fwrite, fopen, the decoder or the display fails.  All but the plain file
\* try to give the buffer back, whatever comes of it.
StoreFails ==
    /\ pc = "handle" /\ ~Skipped /\ mode # "nosave"
    /\ \/ UNCHANGED <<held, queued>>
       \/ mode # "file" /\ held' = None /\ queued' = queued \cup {held}
    /\ pc' = "cleanup"
    /\ UNCHANGED <<setting, deviceVars, streaming, buf, bytesused, count,
                   outVars, status>>

\* VIDIOC_QBUF; the driver may have cleared the structure on return.
GiveBack ==
    /\ held' = None /\ queued' = queued \cup {held}
    /\ buf' \in {buf, 0}

\* VIDIOC_QBUF of a frame that is done with.
Return ==
    /\ pc = "giveback"
    /\ GiveBack
    /\ pc' = "loop"
    /\ UNCHANGED <<setting, deviceVars, streaming, bytesused, count, outVars,
                   status>>

\* Mutant of Printed: the field of the structure the driver has again.
PrintedFromBuffer == buf'

\* The size printed and added to total_bytes.
Printed == bytesused

\* Mutant of Counted: frames without a file are not counted.
CountedIfSaved == IF mode = "nosave" THEN count ELSE count + 1

\* ++count
Counted == count + 1

\* The same for a frame of camera_capture_to_file, which then counts it.
ReturnAndCount ==
    /\ pc = "requeue"
    /\ GiveBack
    /\ count' = Counted
    /\ reported' = Append(reported, Printed)
    /\ pc' = "loop"
    /\ UNCHANGED <<setting, deviceVars, streaming, bytesused, open, written,
                   status>>

ReturnFails ==
    /\ pc \in {"giveback", "requeue"}
    /\ pc' = "cleanup"
    /\ UNCHANGED <<setting, deviceVars, driverVars, loopVars, outVars, status>>

Finished ==
    /\ pc = "loop" /\ ~More
    /\ status' = TRUE
    /\ pc' = "cleanup"
    /\ UNCHANGED <<setting, deviceVars, driverVars, loopVars, outVars>>

\* out: fclose, framebuffer_display_close, free.
Cleanup ==
    /\ pc = "cleanup"
    /\ open' = {}
    /\ pc' = "stop"
    /\ UNCHANGED <<setting, deviceVars, driverVars, loopVars, written, reported,
                   status>>

-----------------------------------------------------------------------------
(* camera_stop and camera_close                                            *)

\* VIDIOC_STREAMOFF takes all buffers from the driver; its failure is a warning.
Stop ==
    /\ pc = "stop"
    /\ \/ streaming' = FALSE /\ queued' = {}
       \/ UNCHANGED driverVars
    /\ pc' = "close"
    /\ UNCHANGED <<setting, deviceVars, loopVars, outVars, status>>

\* munmap of every buffer, then close, which also ends the streaming.
Close ==
    /\ pc = "close"
    /\ mapped' = mapped \ All
    /\ device' = FALSE /\ streaming' = FALSE /\ queued' = {}
    /\ pc' = "exit"
    /\ UNCHANGED <<setting, granted, index, format, loopVars, outVars, status>>

Exited == pc = "exit" /\ UNCHANGED vars

-----------------------------------------------------------------------------

\* The program's own steps: everything but what the camera delivers and the
\* service, which may wait for its peers for ever.
Step ==
    \/ Open \/ Configure \/ ConfigureFails \/ MapBuffer \/ MapFails
    \/ QueueBuffer \/ StreamOn \/ StartFails \/ Prepare \/ PrepareFails
    \/ Skip \/ Store \/ StoreFails \/ Return \/ ReturnAndCount \/ ReturnFails
    \/ Finished \/ Cleanup \/ Stop \/ Close

Next ==
    \/ Step \/ Serve
    \/ \E size \in Sizes : Dequeue(size)
    \/ Timeout \/ CameraFails
    \/ Exited

Spec == Init /\ [][Next]_vars

-----------------------------------------------------------------------------
(* Properties                                                              *)

\* Every variable keeps its type.
TypeOK ==
    /\ mode \in Modes /\ wanted \in FrameCounts /\ format \in Formats
    /\ pc \in {"open", "configure", "map", "queue", "streamon", "prepare",
               "loop", "handle", "giveback", "requeue", "cleanup", "stop",
               "close", "exit"}
    /\ status \in BOOLEAN /\ device \in BOOLEAN /\ streaming \in BOOLEAN
    /\ granted \in 0..MaxBuffers /\ index \in 0..MaxBuffers
    /\ mapped \subseteq All /\ queued \subseteq All
    /\ held \in All \cup {None}
    /\ buf \in Sizes /\ bytesused \in Sizes /\ count \in Nat
    /\ open \subseteq {"file", "rgb565", "display"}
    /\ written \in Seq({1, 2}) /\ reported \in Seq({1, 2})

(***************************************************************************)
(* No buffer is lost or shared: whenever the loop waits for a frame, the   *)
(* driver has every buffer, so that neither empty nor short frames starve  *)
(* the camera, and in between the loop touches only memory that is mapped  *)
(* and that the driver does not fill at the same time.                     *)
(***************************************************************************)
BuffersGoRound ==
    /\ pc = "loop" => streaming /\ queued = All
    /\ pc \in {"handle", "giveback", "requeue"} => held \in mapped \ queued

(***************************************************************************)
(* Success means that exactly the wanted number of frames was captured,    *)
(* and every one of them was written or shown.  The service, whose count   *)
(* is one of requests, succeeds only with JPEGs and a count.               *)
(***************************************************************************)
SuccessIsComplete ==
    status => /\ wanted > 0
              /\ IF mode = "http" THEN format = "MJPG"
                 ELSE count = wanted /\ Len(written) = wanted

(***************************************************************************)
(* What is printed of a frame is what was stored of it: sizes are not read *)
(* back after VIDIOC_QBUF.  No frame but the last may be stored and not    *)
(* counted, so the numbers of --save-frames have no gap and no repetition. *)
(***************************************************************************)
ReportsWhatItStored ==
    /\ count = Len(reported)
    /\ Len(written) - count \in {0, 1}
    /\ \A i \in 1..count : reported[i] = written[i]
    /\ pc = "loop" => count = Len(written)

\* A preview of raw pixels reads a whole picture from the buffer
\* (yuyv_to_rgb565): no short frame gets there.
PreviewsWholePictures ==
    mode = "preview" /\ format = "YUYV" => \A i \in DOMAIN written : written[i] = 2
=============================================================================
