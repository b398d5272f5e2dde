--------------------------- MODULE MotionPipeline ---------------------------
(***************************************************************************)
(* What the capture thread does with each frame between publishing it and  *)
(* counting it: http_service_draw_lcd_frame of v4l2_capture.c decodes the  *)
(* JPEG, compares it with the previous picture, updates the motion         *)
(* counters, colours the moving blocks, draws the LCD and saves a snapshot *)
(* when a motion event starts.                                             *)
(*                                                                         *)
(* Each critical section is one action: between two of them a client may   *)
(* read the counters for /metrics, so an invariant over the counters is    *)
(* what every such reader sees.  Locals of the function are variables that *)
(* are reset when the frame is done.  A snapshot path always fits: the     *)
(* directory has at most 255 bytes and the buffer 512.                     *)
(***************************************************************************)
EXTENDS MotionGrid, FramebufferPixels, Sequences

CONSTANTS
    Pictures,   \* what a JPEG of the camera may decode to
    Corrupt,    \* a frame that is not a JPEG
    Panels,     \* what the LCD may be, if it can be drawn on
    MaxFrames,  \* bound: frames captured
    Faults,     \* the kinds of system failure that may happen
    None

VARIABLES
    config,     \* display, detect and save: fixed when the service starts
    pc,
    frame,      \* the frame being handled: a picture, Corrupt or None
    rgb,        \* rgb565, width and height: a picture or None
    event,      \* motion_event
    ok,         \* ret = 0
    \* http_service_t
    prevSize,   \* motion_previous_width and _height
    prev,       \* motion_previous: None or [size, px], px = None if unset
    hasPrev,    \* motion_has_previous
    wasDetected,\* motion_was_detected
    motion,     \* motion_box_* and motion_active_blocks: [w, h, blocks]
    counters,
    \* outside
    panel,      \* the LCD, None if it cannot be drawn on
    lcd,        \* the memory of the LCD
    files,      \* event number -> the snapshot file's content
    \* history: the picture drawn last, and one entry per decoded picture,
    \* None if it was not compared
    screen,
    seen

locals == <<frame, rgb, event, ok>>
previous == <<prevSize, prev, hasPrev, wasDetected>>
display == <<panel, lcd, screen>>
vars == <<config, pc, locals, previous, motion, counters, display, files, seen>>

Counter == {"captured", "processed", "active", "events", "snapshots",
            "errors", "lcdFrames", "lcdErrors"}

FaultKinds == {"malloc", "file"}

Size(pic) == <<pic.w, pic.h>>

\* An RGB565 image of the size of a picture, and what motion_previous may be.
IsImage(i) ==
    \E pic \in Pictures :
        i \in [w : {pic.w}, h : {pic.h}, px : [0..pic.w*pic.h-1 -> Nat]]

Kept == [size : { Size(pic) : pic \in Pictures },
         px : { pic.px : pic \in Pictures } \cup {None}]

ASSUME PipelineAssumption ==
    /\ MaxFrames \in Nat
    /\ Faults \subseteq FaultKinds
    /\ \A pic \in Pictures : pic.w \in Nat \ {0} /\ pic.h \in Nat \ {0}
    /\ \A pic \in Pictures : IsImage(pic)
    /\ ~IsImage(Corrupt) /\ Corrupt # None
    /\ ~IsImage(None) /\ None \notin Kept
    /\ \A p \in Panels : WellFormed(p)

\* display is "none" without --fb-preview; its depth may be one that
\* framebuffer_display_open accepts and framebuffer_display_draw_rgb565 does
\* not.  parse_args turns detection on with --motion-dir.
Configurations ==
    { c \in [display : {"none", "usable", "unsupported"},
             detect : BOOLEAN, save : BOOLEAN] : c.save => c.detect }

Untouched == 85   \* every byte of the LCD when the service starts

Init ==
    /\ config \in Configurations
    /\ pc = "idle"
    /\ frame = None /\ rgb = None /\ event = FALSE /\ ok = FALSE
    /\ prevSize = <<0, 0>> /\ prev = None
    /\ hasPrev = FALSE /\ wasDetected = FALSE
    /\ motion = [w |-> 0, h |-> 0, blocks |-> {}]
    /\ counters = [n \in Counter |-> 0]
    /\ IF config.display = "usable"
       THEN panel \in Panels /\ lcd = [a \in 0..panel.mem-1 |-> Untouched]
       ELSE panel = None /\ lcd = <<>>
    /\ screen = None /\ files = <<>> /\ seen = <<>>

Bump(names) ==
    counters' = [n \in Counter |-> counters[n] + IF n \in names THEN 1 ELSE 0]

-----------------------------------------------------------------------------

\* A frame arrives; without LCD and motion detection there is nothing to do.
TakeFrame(f) ==
    /\ pc = "idle" /\ counters["captured"] < MaxFrames
    /\ frame' = f
    /\ pc' = IF config.display = "none" /\ ~config.detect
             THEN "count" ELSE "decode"
    /\ UNCHANGED <<config, rgb, event, ok, previous, motion, counters, display,
                   files, seen>>

\* jpeg_decode_to_rgb565
Decode ==
    /\ pc = "decode" /\ frame # Corrupt
    /\ rgb' = frame
    /\ pc' = IF config.detect THEN "prepare" ELSE "draw"
    /\ UNCHANGED <<config, frame, event, ok, previous, motion, counters, display,
                   files, seen>>

DecodeFails ==
    /\ pc = "decode" /\ (frame = Corrupt \/ "malloc" \in Faults)
    /\ pc' = "finish"
    /\ UNCHANGED <<config, locals, previous, motion, counters, display, files,
                   seen>>

Resized == prevSize # Size(rgb)

\* motion_previous gets the size of the picture.
Prepare ==
    /\ pc = "prepare"
    /\ prevSize' = Size(rgb)
    /\ prev' = IF Resized \/ prev = None
               THEN [size |-> Size(rgb), px |-> None] ELSE prev
    /\ hasPrev' = (hasPrev /\ ~Resized)
    /\ pc' = "analyse"
    /\ UNCHANGED <<config, locals, wasDetected, motion, counters, display,
                   files, seen>>

\* Its malloc fails.
PrepareFails ==
    /\ pc = "prepare" /\ "malloc" \in Faults /\ (Resized \/ prev = None)
    /\ prevSize' = Size(rgb) /\ prev' = None
    /\ hasPrev' = (hasPrev /\ ~Resized)
    /\ Bump({"errors"})
    /\ seen' = Append(seen, None)
    /\ pc' = "finish"
    /\ UNCHANGED <<config, locals, wasDetected, motion, display, files>>

Moved == IF hasPrev THEN ActiveBlocks(prev.px, rgb) ELSE {}

\* Mutant of Remember: motion_previous gets the picture after it was coloured.
RememberTinted == prev' = [prev EXCEPT !.px = Tinted(rgb, Moved).px]

\* The memcpy to motion_previous.
Remember == prev' = [prev EXCEPT !.px = rgb.px]

\* Mutant of NewEvent: every frame with motion is an event.
EveryMotion == Moved # {}

\* detected && !motion_was_detected
NewEvent == Moved # {} /\ ~wasDetected

\* Compare with the previous picture, keep this one, publish, and colour.
Analyse ==
    /\ pc = "analyse"
    /\ Remember /\ hasPrev' = TRUE
    /\ motion' = [w |-> rgb.w, h |-> rgb.h, blocks |-> Moved]
    /\ Bump({"processed"} \cup (IF Moved # {} THEN {"active"} ELSE {})
                          \cup (IF NewEvent THEN {"events"} ELSE {}))
    /\ event' = NewEvent
    /\ wasDetected' = (Moved # {})
    /\ rgb' = IF config.display # "none" /\ Moved # {}
              THEN Tinted(rgb, Moved) ELSE rgb
    /\ seen' = Append(seen, frame)
    /\ pc' = "draw"
    /\ UNCHANGED <<config, frame, ok, prevSize, display, files>>

\* A frame drawn, or nothing to draw on: ret = 0.
Draw ==
    /\ pc = "draw" /\ config.display # "unsupported"
    /\ IF config.display = "usable"
       THEN screen' = rgb /\ lcd' = DrawPicture(panel, lcd, rgb)
       ELSE UNCHANGED <<screen, lcd>>
    /\ ok' = TRUE
    /\ pc' = IF event /\ config.save THEN "save" ELSE "finish"
    /\ UNCHANGED <<config, frame, rgb, event, previous, motion, counters, panel,
                   files, seen>>

\* framebuffer_display_draw_rgb565 rejects the depth.
DrawFails ==
    /\ pc = "draw" /\ config.display = "unsupported"
    /\ pc' = "finish"
    /\ UNCHANGED <<config, locals, previous, motion, counters, display, files,
                   seen>>

\* The file motion_<events>.jpg opened with "wb", with some content.
FileGets(content) ==
    files' = [e \in DOMAIN files \cup {counters["events"]} |->
                IF e = counters["events"] THEN content ELSE files[e]]

Save ==
    /\ pc = "save"
    /\ FileGets(frame) /\ Bump({"snapshots"})
    /\ pc' = "finish"
    /\ UNCHANGED <<config, locals, previous, motion, display, seen>>

\* Mutant of SaveFails: the failure is not counted.
SaveFailsSilently ==
    /\ pc = "save" /\ "file" \in Faults
    /\ UNCHANGED files \/ FileGets(None)
    /\ UNCHANGED counters
    /\ pc' = "finish"
    /\ UNCHANGED <<config, locals, previous, motion, display, seen>>

\* The file cannot be opened, or not be written in full.
SaveFails ==
    /\ pc = "save" /\ "file" \in Faults
    /\ UNCHANGED files \/ FileGets(None)
    /\ Bump({"errors"})
    /\ pc' = "finish"
    /\ UNCHANGED <<config, locals, previous, motion, display, seen>>

\* Mutant of LcdOutcome: a failed snapshot or decoding counts as a frame.
LcdOutcomeAlwaysFrame == IF config.display = "usable" THEN {"lcdFrames"} ELSE {}

\* The LCD counter that moves when the function returns.
LcdOutcome ==
    IF config.display = "none" THEN {}
    ELSE IF ok THEN {"lcdFrames"} ELSE {"lcdErrors"}

Finish ==
    /\ pc = "finish"
    /\ Bump(LcdOutcome)
    /\ rgb' = None
    /\ pc' = "count"
    /\ UNCHANGED <<config, frame, event, ok, previous, motion, display, files,
                   seen>>

\* Back in http_service_capture_thread: ++captured_frames.
Count ==
    /\ pc = "count"
    /\ Bump({"captured"})
    /\ frame' = None /\ event' = FALSE /\ ok' = FALSE
    /\ pc' = "idle"
    /\ UNCHANGED <<config, rgb, previous, motion, display, files, seen>>

\* The bound is reached: the camera gives no more frames.
Stopped ==
    /\ pc = "idle" /\ counters["captured"] = MaxFrames
    /\ UNCHANGED vars

Next ==
    \/ \E f \in Pictures \cup {Corrupt} : TakeFrame(f)
    \/ Decode \/ DecodeFails
    \/ Prepare \/ PrepareFails \/ Analyse
    \/ Draw \/ DrawFails
    \/ Save \/ SaveFails
    \/ Finish \/ Count
    \/ Stopped

Spec == Init /\ [][Next]_vars

-----------------------------------------------------------------------------
(* Properties                                                              *)

\* Every variable keeps its type; the buffer and the flags fit together.
TypeOK ==
    /\ config \in Configurations
    /\ pc \in {"idle", "decode", "prepare", "analyse", "draw", "save",
               "finish", "count"}
    /\ frame \in Pictures \cup {Corrupt, None}
    /\ (frame = None) = (pc = "idle")
    /\ rgb # None => frame \in Pictures /\ Size(rgb) = Size(frame)
    /\ rgb = None => pc \in {"idle", "decode", "finish", "count"}
    /\ event \in BOOLEAN /\ ok \in BOOLEAN
    /\ prevSize \in {<<0, 0>>} \cup { Size(p) : p \in Pictures }
    /\ hasPrev \in BOOLEAN /\ wasDetected \in BOOLEAN
    /\ motion.blocks \subseteq Blocks
    /\ counters \in [Counter -> Nat]
    /\ DOMAIN files \subseteq 1..counters["events"]

\* What motion detection has to say of the i-th picture: it moved if it was
\* compared with the one just before it and some block differs.
MovedAt(i) ==
    /\ i > 1 /\ seen[i] # None /\ seen[i-1] # None
    /\ Size(seen[i]) = Size(seen[i-1])
    /\ ActiveBlocks(seen[i-1].px, seen[i]) # {}

(***************************************************************************)
(* motion_previous is right when it is read.  It is never read outside or  *)
(* before it was written: when the capture thread compares, the buffer has *)
(* the size of the new picture and holds one (v4l2_capture.c:296, 322,     *)
(* 393), though a change of size, a failed malloc and a frame that does    *)
(* not decode may come in any order before.  And the red mask of a frame   *)
(* does not count as motion in the next: what that is compared with is the *)
(* camera's picture, not the coloured one (393 comes before 422).          *)
(***************************************************************************)
ComparesCameraPictures ==
    /\ pc = "analyse" => prev # None /\ prev.size = Size(rgb)
    /\ hasPrev => /\ prev # None /\ prev.size = prevSize
                  /\ seen # <<>> /\ seen[Len(seen)] # None
                  /\ prev.px = seen[Len(seen)].px

(***************************************************************************)
(* motion_events counts the changes from rest to motion and                *)
(* motion_active_frames the frames with motion, whatever frames are        *)
(* corrupt, change the size or find no memory (docs/progress.md:1571-1572).*)
(* A frame that cannot be compared for want of memory is no end of motion. *)
(***************************************************************************)
EventsAreRises ==
    LET compared == { i \in DOMAIN seen : seen[i] # None }
        moved == { i \in compared : MovedAt(i) }
        Before(i) == { j \in compared : j < i }
    IN  /\ counters["processed"] = Cardinality(compared)
        /\ counters["active"] = Cardinality(moved)
        /\ counters["events"] =
               Cardinality({ i \in moved :
                   Before(i) = {} \/ Max(Before(i)) \notin moved })

(***************************************************************************)
(* With an LCD every captured frame is counted once, as drawn or as an     *)
(* error, on every path through the function; drawn if the LCD changed.    *)
(***************************************************************************)
LcdCountsEveryFrame ==
    LET returned == counters["captured"] + IF pc = "count" THEN 1 ELSE 0
    IN  config.display # "none" =>
            /\ counters["lcdFrames"] + counters["lcdErrors"] = returned
            /\ pc = "idle" => (counters["lcdFrames"] > 0) = (screen # None)

\* The bytes of the mapping that are not on the screen.
BesideTheScreen == \A a \in Unseen(panel) : lcd[a] = Untouched

(***************************************************************************)
(* The LCD shows the picture drawn last: for any sizes of the two, every   *)
(* visible pixel has the colour of the pixel of the picture that lies over *)
(* it, as well as its fields allow, and no other byte of the mapping was   *)
(* touched (framebuffer_display.c:126, 185-192).                           *)
(***************************************************************************)
LcdShowsThePicture ==
    config.display = "usable" =>
        /\ screen # None => ShowsPicture(panel, lcd, screen)
        /\ BesideTheScreen

(***************************************************************************)
(* With an LCD that can be drawn or without one, each motion event ends as *)
(* a counted snapshot, which holds the frame the event began with, or as a *)
(* counted error (motion_errors also counts pictures without a buffer).    *)
(***************************************************************************)
EveryEventSavedOrReported ==
    LET whole == { e \in DOMAIN files : files[e] # None }
        unbuffered == { i \in DOMAIN seen : seen[i] = None }
        rises == { i \in DOMAIN seen : MovedAt(i) /\ ~MovedAt(i - 1) }
    IN  /\ Cardinality(whole) = counters["snapshots"]
        /\ \A e \in whole : \E i \in rises : files[e] = seen[i]
        /\ pc = "idle" /\ config.save /\ config.display # "unsupported" =>
               counters["events"] = counters["snapshots"]
                   + counters["errors"] - Cardinality(unbuffered)

(***************************************************************************)
(* The box that /metrics gives out bounds exactly the pixels the mask      *)
(* colours: edges, widths and the last block agree between the two.        *)
(***************************************************************************)
BoxBoundsTheMask ==
    motion.blocks # {} =>
        LET pic == [w |-> motion.w, h |-> motion.h]
            box == Box(motion.w, motion.h, motion.blocks)
            mask == Mask(pic, motion.blocks)
            xs == { i % motion.w : i \in mask }
            ys == { i \div motion.w : i \in mask }
        IN  /\ box.x = Min(xs) /\ box.x + box.w - 1 = Max(xs)
            /\ box.y = Min(ys) /\ box.y + box.h - 1 = Max(ys)

(***************************************************************************)
(* "--motion-dir DIR  Save one MJPG snapshot for each motion event"        *)
(* (main.c:29), when no system call fails.                                 *)
(***************************************************************************)
EveryEventHasASnapshot ==
    pc = "idle" /\ config.save => DOMAIN files = 1..counters["events"]

(***************************************************************************)
(* What really moves is marked red (docs/progress.md:1958): the samples    *)
(* that make a block active lie in the pixels coloured for it.             *)
(***************************************************************************)
MotionIsMarkedRed ==
    config.display = "usable" => \A b \in motion.blocks :
        LET pic == [w |-> motion.w, h |-> motion.h]
        IN  { Index(pic, s) : s \in Samples(pic, b) } \subseteq Mask(pic, {b})
=============================================================================
