# Verification of the i.MX6ULL camera vision gateway

TLA+ models of the program in `src/standardized_camera_app/`, the TLC runs that
check them on small instances and the theorems that `tlapm` proves for every
value of the constants. `PROJECT.json` lists components, runs, mutants, mapped
source lines, findings, hazards and theorems. Paths without a directory are
under `src/standardized_camera_app/src/`; `docs/...` is the repository's own
documentation.

    tlc -workers 2 -config FrameQueue.cfg MCFrameQueue     # one run
    tlapm FrameQueueProofs.tla                             # one proof module

## 1. Inventory

| component | state | operations | what is hard | what makes it correct |
|---|---|---|---|---|
| HTTP MJPEG service (`v4l2_capture.c`, `stream_http_mjpeg.c`) | `http_service_t` on main's stack: mutex, condition variable, latest frame, stop, failed, counters; sockets; one frame copy per client | main accepts, counts and spawns; the capture thread dequeues, publishes, counts and requeues; each client thread streams, or answers `/snapshot`, `/metrics` or 404 | three kinds of threads, detached clients, blocking sends and receives, timed waits, a `goto` out of every stage | copies and sockets have one owner, no wakeup is lost, slow clients do not hold the camera, the service outlives its users, every path out cleans up |
| Frame queue (`frame_queue.c`) | ring of frame copies, head, tail, count, dropped, closed | init, push, pop, close, destroy, release | several consumers on one condition variable, drop of the oldest, failed copies | consistent ring, one owner per copy, FIFO order, right drop count, close reaches every waiter |
| Motion detection and LCD (`http_service_draw_lcd_frame`) | previous picture and its size, has_previous, was_detected, box, counters, snapshot files | decode, compare, count, colour, draw, save | frames of changing size, corrupt frames, failures in the middle of a frame, integer rounding | only whole camera pictures are compared, events are rises, every event is saved or reported, counters add up |
| V4L2 device and file capture (`v4l2_capture.c`, `main.c`) | `camera_context_t`: fd, mapped buffers; the driver's queue; count, output | open, configure, start, the loops to a file, to numbered files, to nowhere and to the framebuffer, stop, close | a failure at every system call, empty and short frames, a driver that alters the `v4l2_buffer` | no buffer lost, nothing left behind, honest count and sizes |
| Framebuffer display (`framebuffer_display.c`) | mapping, geometry | open, clear, draw, test pattern, close | panned and padded mappings, pixel formats, scaling by integer division, a failure at every call | the picture fills the screen without leaving it, nothing stays open |
| JPEG decoder (`jpeg_decoder.c`) | none between calls; within one, libjpeg's memory and the picture | decode to RGB565 | errors of libjpeg by longjmp, truncated data | a whole picture or an error, nothing leaked |
| Command line (`main.c`) | `camera_config_t` | `parse_args`, main | order and combinations of options | no option undone or dropped in silence, an honest exit status |
| Format listing (`camera_device.c`) | three enumeration indexes, one descriptor | enumerate and print | nested loops whose indexes are kept by hand, ioctls that fail in the middle | complete, in order, without repetition; the descriptor closed |

How they interact. `main` parses the command line and does one thing: it prints
the usage, lists the formats, draws the test pattern, or opens, configures and
starts the camera and runs exactly one of three captures: the HTTP service, the
framebuffer preview, which calls the JPEG decoder for each compressed frame, or
the capture to files. Within the service, capture thread and clients share the
latest frame through copies made under the mutex; clients sleep on the
condition variable until a publish or a stop broadcasts. The capture thread
calls the motion and LCD step between publishing a frame and counting it; that
step shares only counters with `/metrics`. `frame_queue.c` is used by its test
only: the service keeps one latest frame instead.

The hazards are listed in `PROJECT.json`, each at its line with the properties
that would catch it.

## 2. Modules

| module | what it is |
|---|---|
| `HttpService` | state and actions of main, capture thread, client threads and peers; fairness |
| `HttpServiceProperties` | its invariants and liveness, the refinement of `LatestFeed`, three claims of the documents |
| `LatestFeed` | abstract: what a viewer of `/stream` is promised |
| `HttpServiceProofs` | theorems about `HttpService` |
| `FrameQueue` | the ring under its mutex, its consumers, its properties |
| `LossyFifo` | abstract: what `frame_queue.h` promises |
| `FrameQueueProofs`, `FrameQueueRefinement` | theorems: invariants; the ring implements the FIFO |
| `HttpWire` | one connection byte by byte: `send_all` and the answers built from it |
| `HttpWireProofs` | theorems about `HttpWire` |
| `MotionGrid` | pure picture arithmetic: luma, samples, block edges, mask, box |
| `FramebufferPixels` | pure: packing, addresses, bars, scaling, and what a panel shows |
| `FramebufferPixelsProofs` | theorems about these operators |
| `MotionPipeline` | what happens to one frame after another, the counters, the LCD and the files |
| `MotionPipelineProofs` | theorems about `MotionPipeline` |
| `CommandLine` | `parse_args`: what one option changes, the checks, and what a set of options means |
| `FormatListing`, `FramebufferTest`, `JpegDecoder` | the calls of those components, step by step |
| `CaptureDevice` | one capture, from `camera_open` to `camera_close`, the HTTP service as one step |
| `CaptureDeviceProofs` | theorems about `CaptureDevice` |
| `Program` | the process: `CommandLine` and `CaptureDevice` extended, `FormatListing`, `FramebufferTest` and `JpegDecoder` as instances |
| `ProgramProofs` | theorems about the process |
| `MC*` | instances for TLC: symmetry sets, pictures |

Definitions whose comment begins with "Mutant of X" are wrong variants of the
definition X that follows. Nothing uses them; replacing X by one must break the
property `PROJECT.json` names, which shows that the property depends on that
line of the code.

### HttpService

One action is one critical section of `service->mutex`, or one call outside it
that may block or fail. `mainPc`, `capPc` and `pc[c]` name the place of each
thread.

| thread | actions | code |
|---|---|---|
| main | `Setup`, `SpawnCapture`, `Listen`, `Accept`, `Receive`, `CountClient`, `CreateClient`, `UncountClient`, `JoinClient`, then `StopService`, `JoinCapture`, `DestroyService`, `ReleaseCamera`; `AcceptFails`, `ReceiveFails`, `CreateClientFails` are the ways out | `camera_capture_http_mjpeg`, `http_mjpeg_accept_request`, the end of `main()` |
| capture | `CaptureCheck`, `SelectTimeout`, `Dequeue`, `CopyFrame`, `Publish`, `CountFrame`, `Requeue`, `CaptureLeaves`; `DriverFails`, `CopyFrameFails` | `http_service_capture_thread`, `http_service_update_latest` |
| client | `SendHeader`, `WaitLatest`, `DeadlinePasses`, `TimedOut`, `CheckStop`, `SendFrame` for a stream; `CopyLatest`, `ReadMetrics`, `FormatMetrics`, `Reply` for the others; `Finish`, `CloseClient`, `UseDestroyed` | `http_client_thread`, `http_service_wait_latest`, `http_service_copy_latest` |
| peer | `Connect`, `SendRequest`, `HangUp` | external |

Abstractions. A frame is its sequence number. A copy is a heap block, and
`mem` tells which blocks are allocated and which frame they hold, so a leak, a
shared block or a use after free is visible; malloc gives the least free block,
which loses nothing because blocks are alike. The mutex is implicit, as critical
sections neither block nor call out. A use of the destroyed service is undefined
behaviour: the thread goes "wild" or the process has "crashed". `display` says
whether the framebuffer of the LCD preview (`FbPreview`) is open: `Setup` opens
it, `DestroyService` closes it. A `/metrics` reader copies the counters under the
mutex (`ReadMetrics`) and then formats them, with `service->display` read once
more (`FormatMetrics`); at either place it may find the service destroyed.
`dropped` is a history of the frames that could not be copied.

A send that fails is a send to a peer in `gone`. This leaves no failure out: any
`errno` other than `EINTR` ends the thread's loop or call in the same way, and
`HangUp` may come right before any send. Left out: `timeout_count`,
`total_clients` and the sums of `/metrics`, which nothing depends on;
`client_args`, which the client thread frees next to closing its socket; and the
text of requests and answers, of which only the kind of request remains.

### HttpWire

Each sending step of `HttpService` is a whole message; `HttpWire` opens one
connection up. A message is the sequence of the sizes of its parts, one for each
call of `send_all`: header; part header, JPEG, line end; header and body. `Send`
takes any number of bytes the socket has room for, `Interrupted` is `EINTR`, and
`SendFails`, possible at any time, is every other way `send` returns nothing.
`detached` says that main does not wait for the thread (`frame_count` 0): then
`ProcessEnds` may take it away wherever it is, in the middle of a send too. A byte is named by where it belongs in
the answer (message, part, offset), so `out` shows any byte lost, repeated or
out of place. `unread` says that the request was longer than the one `recv` took:
then TCP resets the connection when it is closed, and what the peer has not read
yet may be `lost` (a listed hazard; nothing in the repository rules it out). `Room`, `PeerReads` and `PeerLeaves` are the socket and the peer.

### FrameQueue

`Push`, `PushDropsOldest`, `PushFails`, `PopTakes`, `PopWaits`, `PopEnds`,
`Release`, `Close`, `Destroy` are the critical sections of the functions of
those names. `pc[c]` is "asleep" in `pthread_cond_wait` and "woken" until the
consumer has the mutex again; another consumer may overtake it, and wakeups may
be spurious. Destroy happens as in the test: after close, with nobody in pop.

### MotionGrid and MotionPipeline

`MotionGrid` translates the arithmetic of `rgb565_luma`, `red_tint_rgb565`,
`draw_rgb565_motion_mask` and the sampling loops, with the integer divisions of
the code, for any grid, step and threshold. `MotionPipeline` runs frames through
`http_service_draw_lcd_frame`: `Decode`, `Prepare` (the buffer for the previous
picture), `Analyse` (compare, remember, count, choose the box: one critical
section), `Draw`, `Save`, `Finish` (LCD counters), `Count`, with the failure of
each. `Draw` writes the bytes of the LCD's mapping with the operators of
`FramebufferPixels`. `seen` is a history of what was decoded; no action reads it. brightness,
motion_delta and the peaks are left out: they are only printed.

### FramebufferPixels and FramebufferTest

The operators are those of `framebuffer_display.c`: `ScaleColor`, `PackColor`,
`Address` (`put_pixel`), `DrawColorBars`, `DrawPicture`. What one sees is stated
independently of them: `ScanOut` reads the mapping as a display does, from its
line and column offset, and `ShowsBars` and `ShowsPicture` say by cross
multiplication, not by division, which bar or pixel lies over which. A panel is
any geometry with 16 or 32 bits for a pixel whose lines are inside the mapping
(`WellFormed`). `FramebufferTest` has the steps of `framebuffer_test_pattern`.

### Program

`ReadOption` is one turn of the loop over `getopt_long`, with `Effect` for the
switch; `ParseReturns` is the rest of `parse_args` (`Checked`) and the choice
main makes. `Meaning` says independently what a set of options asks for. `List`,
`DrawTest` and `InCapture(A)` are one step of the function `main` called;
`ListReturns`, `TestReturns` and `CaptureReturns` turn its result into the exit
status. A compressed frame of a preview goes through `CallDecoder`, `DecodeStep`
and `DecoderReturns`, which stores the picture or fails.
`FormatListing` has a camera as nested sequences, prints index paths and
lets every ioctl fail early. What the code prints nothing for is in it: a size or
an interval of an unknown type, and a discrete interval with numerator 0. Each
takes its index; an interval of an unknown type, like a range, ends its list, a
size of an unknown type does not. `JpegDecoder` has what is allocated, the local
`pixels`, which must survive the `longjmp`, and the lines stored: data that ends
early gives gray lines, for the data source answers with an end-of-image marker
and never with nothing. `CaptureDevice`'s one step for the HTTP service (`Serve`)
stands for the whole of `HttpService`: the display, sockets and copies of the
service are given back by `CleanExit` there, not by `NothingLeftBehindAtExit`.

### CaptureDevice

`main()`'s sequence with a failure at every system call. A frame is its size
class: empty, short, whole. `GiveBack` lets the driver clear the structure it is
given in `VIDIOC_QBUF`, as the repository's notes report. The two loops differ in
when they count and in what they do when storing fails; `Store`, `StoreFails`,
`Return` and `ReturnAndCount` say where. The driver is assumed to grant at most
`CAMERA_MAX_BUFFERS` buffers (a listed hazard: the code does not check it).

## 3. Runs

| run | bounds | distinct states | what it shows |
|---|---|---|---|
| `HttpContinuous` | 2 connections, 2 buffers, 4 blocks, 3 frames, all faults | 1 757 545 | ownership of copies and sockets, buffers, wakeups, reasons for the end of a stream, counters, refinement of `LatestFeed` |
| `HttpSingle` | the same, one request, all four kinds | 434 078 | with `-n N` no client thread outlives the service, and every path out gives everything back |
| `HttpLive` | 2 connections, 1 buffer, 4 blocks, 2 frames, a camera that may fail | 284 013 | slow clients and a stuck main neither hold a buffer nor keep a stopped capture thread alive; shutdown completes, new frames reach waiting viewers, a stop reaches every client outside a send |
| `HttpUseAfterDestroy`, `HttpEarlyClose`, `HttpSilentClient` | no faults | | findings, below |
| `HttpWire` | 4 messages with bodies of 1, 4 and 7 bytes, a window of 3 | 70 448 | bytes once and in order, answers whole unless a send fails or the process ends, readers served |
| `FrameQueue` | 3 slots, 3 consumers, 7 frames | 86 510 | ring, ownership, wakeups, refinement of `LossyFifo`, end of stream |
| `MotionPipeline` | 4 frames out of 6 pictures of 2 sizes or corrupt, 2x2 blocks, 2 panels, all options | 320 352 | what is compared, events, LCD counters, the LCD's bytes, snapshots, box against mask |
| `MotionSnapshots`, `MotionMask` | no faults | | findings, below |
| `Program` | 7035 command lines, 5 cameras, 4 panels, 3 JPEGs, 0 to 4 buffers, 0, 1 or 3 frames | 151 105 | options, listing, test pattern, decoder, buffers, clean-up, counts, sizes, exit status, end |

Why the bounds are enough. Two connections are the least with which one
client's fate can depend on another's, with a detached thread and main in a
different place each; a third is alike. Three frames give a client one it has,
one it missed and one that replaces both, and the first has number 0, where
`last_sequence` starts. Four blocks are the latest, the one to be published and
one copy for each client: malloc fails only where `"malloc"` allows it; with
three it also fails for want of memory. Seven pushes wrap a ring of three
twice; three consumers allow one to sleep, one to be woken and one to overtake.
Four frames hold rest, motion, an interruption and motion again; sizes 4x2 and
5x3 are a multiple of the grid and not, and the smaller leaves blocks without a
sample. The bounds on frames (`MaxSeq`, `MaxPush`, `MaxFrames`) are guards of
the action that brings a frame. A window of three bytes is smaller than most
parts and larger than the shortest, so a part is cut, fits, or shares the window
with its neighbours. The command lines are every choice and order of up to three
of nineteen options, any of them twice, and of four of those that make a service
with motion detection, the longest chain of conditions in `parse_args`. The cameras have no
format, a format without sizes, ranges and unknown types at both levels with
entries after them, and an interval that is no rate. The panels are panned, padded and not a multiple of eight
wide; TLC's integers have 32 bits, so the fields of the 32-bit panel add up to
30. Two lines of a picture allow it to be whole, cut, or empty of data.

`HttpSilentClient` and `HttpLive` switch the deadlock check off: main may block
in `recv`, or in `accept` when no one connects any more or the camera has
failed, and then nothing needs to move. The other runs check deadlock; the end of the program is a stuttering step.

### Fairness

`HttpService`: each thread is weakly fair in the calls that return by
themselves: `select` and `pthread_cond_timedwait` within two seconds, ioctls,
malloc, the mutex. Peers are not fair, and a client is not fair in a send: its
peer may never read. The run uses `CaptureSpec`, fairness for the capture thread
alone, so that `CaptureNeverBlocked` holds though everyone else stands still;
the other three properties have the fairness of main and of the clients
(`Scheduled`) as their premise. `HttpWire`: the client thread runs (`Server`) and
the peer, until it leaves, reads what has come; no frame has to come, no send has
to fail and the process need not end (`SendFails` and `ProcessEnds` are not in
`Server`). `ReaderIsServed` speaks only of a process that goes on and of sends
that do not fail. `FrameQueue`: a woken consumer gets the mutex; nobody has to push or pop.
`Program`: the program's own steps are weakly fair, and the camera, however
often it times out or hands out empty buffers, again and again delivers a whole
frame (strong fairness of `Dequeue(2)`). Nothing is assumed of the HTTP service,
and `ProgramEnds` does not speak of it.

### Findings

Five statements of the repository that the code does not keep; each run's trace
shows how.

1. **The service is destroyed under its clients** (`HttpUseAfterDestroy`,
   `v4l2_capture.c:1175` and `:1193`). In continuous mode clients are detached
   and main destroys the service on its stack without waiting for them;
   `docs/progress.md` says main waits for the threads before it cleans up.
2. **One closed connection ends everything** (`HttpEarlyClose`,
   `v4l2_capture.c:1141`). A peer that closes before it sends makes `recv`
   return 0 and the accept loop end; the plan says closing one browser does not
   affect another.
3. **One silent connection blocks accept** (`HttpSilentClient`,
   `stream_http_mjpeg.c:109`). The request is read in main, without a timeout.
4. **An event without its snapshot** (`MotionSnapshots`, `v4l2_capture.c:428`).
   A failed draw on the LCD skips the snapshot; with a framebuffer depth that
   open accepts and draw rejects, no event is ever saved, nor an error counted.
5. **What moved is not what turns red** (`MotionMask`, `v4l2_capture.c:327`
   against `:221`). Samples are assigned to blocks and blocks to pixels by
   different roundings.

## 4. Proofs

All theorems rest only on the named assumptions of the constants
(`HttpAssumption`, `QueueAssumption`, `DeviceAssumption`, `CommandLineAssumption`,
`ProgramAssumption`, `DevicesAssumption`, `WireAssumption`, `PipelineAssumption` and those of
`MotionGrid`): finite sets of connections and consumers, natural bounds, pictures
whose pixels fill them, panels that are `WellFormed`, a null value that is none
of these. They hold for every number of connections, buffers, blocks, slots,
consumers and frames, every window, picture, panel and command line, with every
kind of failure.

**HttpServiceProofs.** `IInv` adds to types and ownership (`TypeOK`,
`EveryCopyHasOneOwner`, `EverySocketHasOneOwner`) where each thread can be:
`MainShape` ties main's place to the connection it serves and to whether the
service and the capture thread exist, `CaptureShape` says when the capture
thread has a buffer or a copy, `ClientShape` which places a request leads to.
Ownership is not inductive without them: a block put into a client's `copy`
overwrites nothing only because `copy` is empty wherever the thread asks for one.
On `IInv` rest, each with an induction of its own:

| theorem | property |
|---|---|
| `TypeCorrect` | `TypeOK` |
| `CopiesOwned`, `SocketsOwned` | `EveryCopyHasOneOwner`, `EverySocketHasOneOwner` |
| `CaptureJoined` | `ServiceOutlivesCapture` |
| `BuffersAccounted` | `NoBufferLost` |
| `NoWakeupLost` | `SleepsOnlyIfNothingNew` |
| `StreamsEndForAReason` | `StreamEndsForAReason` |
| `SentFramesIntact` | `SendsWhatItTook` |
| `ClientsJoined` | `ServiceOutlivesClients`, if not continuous |
| `CleanAtExit` | `CleanExit` |
| `CountersExact` | `CountersAreExact` |
| `ServiceImplementsFeed` | `ImplementsFeed` |

`ClientsJoined` needs that at most one client thread exists, and that it is the
one main serves (`OneAtATime`); without its premise it is finding 1.
`CleanAtExit` follows from ownership: at the exit no thread is left that could own
a copy or a socket, `ListeningShape` says where main has the listening socket, and
`DisplayShape` where the framebuffer is open. On that shape rests `CaptureJoined`
too: while the capture thread exists, both the service and its display do. `CountersExact` is an induction with a cardinality: every step moves at
most one client into or out of `CountedClients` (`ClientsExact`), and the frames
dequeued are those counted, those that could not be copied and the one in hand
(`FramesExact`). `TypeStep` is proved one group of variables at a time
(`TypesInParts`): a step that leaves a group alone keeps its types (`TypesStay`).

`ServiceImplementsFeed` proves `Spec => Feed!Spec`. A stream is handed the latest
frame only if its number is not the one it had; that it is then greater is not
visible in that step. `FeedOrder` supplies it: no client has seen a number beyond
the newest, and the number in the capture thread's hands is beyond the published
one. With it each action is a `Publish`, `Hand`, `Sent` or `Shut` of the feed or
changes nothing the feed sees.

**FrameQueueProofs.** `QInv` is the conjunction of types, `RingConsistent`,
`EveryFrameHasOneOwner` and `NoLostWakeup`: the ring's consistency is what makes
the slot at `tail` empty, so that ownership survives a push, and the numbers of
the copies never exceed the number offered, so that a frame that enters is new.
The ring arithmetic is reduced by `SlotValues` and `OccupiedValues` from
remainders to a case distinction. `NoLostWakeup` counts: a push adds one frame
and wakes one sleeper; a pop by a woken consumer removes one of each.
Theorems: `RingStaysConsistent`, `FramesOwned`, `NoWakeupLost`.

**FrameQueueRefinement.** `RingImplementsFifo` proves
`Spec => ImplementsFifo`, hence order, drop-oldest and the drop count of
`LossyFifo`. The mapping reads the ring from head to tail; `RingEnter` and
`RingLeave` show that a push appends and a pop takes the tail of that sequence,
and a push into the full ring is both.

**CaptureDeviceProofs.** `DInv` is types, `DeviceShape` (what is mapped, queued
and streaming at each step of `main()`) and `Account` (counts, output, report):
`SuccessIsComplete` needs that the count never passes `frame_count`, which holds
because a frame is taken only while one is wanted (`TallyShape`). Theorems:
`TypeCorrect`, `BuffersReturned`, `CompleteSuccess`, `HonestReport`,
`WholePictures`.

**ProgramProofs.** `PInv` is `DInv`, the shapes of the three functions
(`ListShape`: the descriptor, and that the index of the formats tells whether a
line was printed; `TestShape`; `JpegShape`: what is allocated at each place of
the decoder, and that as many lines are stored as it is past) and `StageShape`,
which says what has run at each stage of `main`. `DeviceInvariant` carries the
capture's invariant into the process: its steps are steps of `CaptureDevice` or
leave it alone, and `SettingsStep` shows that the settings may change before it
begins. Theorems: `CaptureInProcess`, `ProcessLeavesNothing`, `HonestStatus`,
`WholePicturesDecoded`. Three more rest on an induction of their own:

- `CommandLineIsHeard` (`NoAmbiguousCommandLine`), for command lines of any length.
  `Gathered` says of the options taken so far that every value is the argument of
  one of them or the default, that every flag is set if and only if its option is
  among them, and that none has ended the loop. It speaks of their set only, so
  the order is gone before it is asked about; where a name is given once the value
  is the `Argument` of `Meaning`. The loop is modelled turn by turn, as in the code,
  so that this is an induction over steps; over the sequence it would be out of
  reach.
- `ListingIsComplete` (`ListsWhatTheCameraOffers`), for every camera. "Complete" is
  about the lines the code prints for the entries it asks for (`Lines`). `Place` says
  where the three loops can be: before the index nothing that ends a list. `Past` gives meaning to the indexes, the lines that come before that place,
  and `Told` says that these, and no others, have been printed in their order, all
  of them unless an ioctl cut a list short. Each step adds one line to `Past` and
  prints it, or adds none.
- `BarsAreSeen` (`TestPatternIsSeen`). `BarsShape` has the mapping cleared when it is
  drawn on; the rest is `BarsAreShown` below.

**HttpWireProofs.** `BytesInOrder` is not inductive: that the next byte is the
right one depends on `part` and `sent`. `Position` ties them to the last byte in
the socket, and `Belongs` keeps every byte within a message that has begun, so
that its successor is defined. `WholeAnswers` (`CutShortForAReason`): a connection that
its thread closes without a failed send ends with a whole message, whatever the
socket took at a time and whatever was interrupted; besides a failed send only the
end of the process in continuous mode cuts an answer. Theorems: `SentInOrder`,
`WholeAnswers`.

**FramebufferPixelsProofs** is about operators, for every well-formed panel:
pixels are inside the mapping (`PixelInMapping`) and disjoint
(`PixelsAreDisjoint`), hence the `CHOOSE` of `DrawAll` has one candidate and a
drawing writes what it should (`DrawnPixel`) and nothing else
(`NothingElseDrawn`); scaling stays in the picture (`ReadsInsideThePicture`);
RGB565 survives the way to eight bits and back (`Rgb565IsExact`). `BarsAreShown` and
`PictureIsShown` go all the way from the drawing to what the display scans out:
the pixel read is the colour packed (`ReadBack`), each of its fields is that
colour's level (`Packed565`, `Packed888`), and the division that chose the colour
agrees with the cross multiplication that says which one lies there
(`SourceCovers`). Their hypothesis is a pixel of the usual formats: RGB565, or 32
bits with 8 for a channel and transparency or nothing above them (`IsRgb565`, `IsRgb888`).
`pack_color` takes offsets and lengths from the driver, and what `2^n` is for a
variable `n` needs an induction; of the other formats TLC checks one, with five
bits a channel, the colours reversed and a bit of transparency. The hypothesis is
not only the prover's: a channel of ten bits gets 255 * 4, 1020 of 1023, and the bars
are not at full intensity.

**MotionPipelineProofs.** `PInv` is `LocalsShape` (which locals are set at each
step), `ServiceShape` (types of what the service keeps, where the buffer of the
previous picture has the size that is recorded), `LcdShape` (the LCD and its
counters) and `ComparesCameraPictures` itself. Theorems: `PipelineTypes`,
`ComparesWhatItShould`, `EveryFrameAtTheLcd`, and `PreviewStaysInside`, which
rests, as `NothingElseDrawn` does, on `NoOwner`: no byte beside the screen ever changes.

Three properties speak of the past, and their invariants recompute what the code
remembers from `seen`, the history of the decoded pictures.

- `EventsCounted` (`EventsAreRises`): `EventShape` says that `was_detected` is the
  last comparison that was made, that `has_previous` and its size are the last
  picture's, and that each counter is the number of those comparisons, of those
  that moved and of their rises. A picture more leaves the earlier ones as they
  are, so each set grows by its last index or not at all.
- `EventsAccountedFor` (`EveryEventSavedOrReported`): `SnapshotShape` counts for
  every step between the analysis and the end of the frame; the event in hand
  (`Pending`) is neither saved nor reported yet.
- `LcdIsRight` (`LcdShowsThePicture`): `Shown` carries the picture last drawn; it
  rests on `PictureIsShown` and has its hypothesis, for the panels of the LCD
  (`UsualPanels`).

`BoxIsTight` (`BoxBoundsTheMask`) compares the divisions of the box with those of
the mask. It needs pictures of at least a pixel for each block, which the runs
have and a camera has, but no line of the code asks for. In smaller ones a block
can be empty and the box has nothing to be tight around; `BoxIsInside` proves
what remains true of them: what is coloured is in the box, and the box in the
picture.

Only model-checked: all liveness (beyond the prover: fairness and ENABLED), which
is `CaptureNeverBlocked`, `ShutdownCompletes`, `NewFrameIsSent`,
`StopReachesClients`, `CloseEndsEveryPop`, `ReaderIsServed` and `ProgramEnds`; and the
bars on a panel of another pixel format. Every invariant and every
refinement that a run checks is also a theorem.

## 5. Not modelled

- libjpeg itself: it may fail in any call, and gives the lines there is data for.
- `yuyv_to_rgb565`: a raw frame is shown or it is not. Which frames reach it is
  modelled (`PreviewsWholePictures`), its arithmetic is not. It converts pixels in
  pairs and leaves the last column of an odd width as malloc gave it; drivers of
  YUYV grant even widths.
- The text of HTTP requests and answers, and how TCP cuts a request: one `recv`
  is one message, so a request line in two segments is one of another kind
  (a listed hazard). `http_mjpeg_accept_client` is called by nobody.
- The printed statistics, `brightness`, `motion_delta` and the peaks; the stdio
  buffer behind `fclose`; overflow of `unsigned int` in `x * width` and
  `x * color_count`, which takes screens or pictures beyond 65 535 pixels a line;
  counters past 2^32.
- A signal that kills the process (SIGINT): the kernel then gives everything back,
  and none of the code runs.
- More than `CAMERA_MAX_BUFFERS` buffers from the driver (`DeviceAssumption`; a
  listed hazard).
- Two runs of the program: a restart numbers events from 1 again and overwrites
  the snapshots of the run before. Nothing of them is read back.

## 6. What is left

Every component is modelled and every safety property proved. Worth doing next:
lemmas on `MotionGrid` that the tiles of a picture partition it and that samples
lie in their tiles when the size is a multiple of the grid, which bounds finding
5; pixel formats with any offsets and lengths, from lemmas on powers of two; and
a composition in which `HttpService`'s sends are those of `HttpWire`.
