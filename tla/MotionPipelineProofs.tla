------------------------- MODULE MotionPipelineProofs -------------------------
(***************************************************************************)
(* Proofs about MotionPipeline for every grid and threshold, every set of  *)
(* pictures of any sizes, every panel and any number of frames.            *)
(***************************************************************************)
EXTENDS MotionPipeline, FramebufferPixelsProofs, FiniteSetTheorems

-----------------------------------------------------------------------------
(* The inductive invariant                                                 *)

\* Where the function is, what its locals are.
LocalsShape ==
    /\ config \in Configurations
    /\ pc \in {"idle", "decode", "prepare", "analyse", "draw", "save",
               "finish", "count"}
    /\ event \in BOOLEAN /\ ok \in BOOLEAN
    /\ pc = "idle" => frame = None
    /\ pc # "idle" => frame \in Pictures \cup {Corrupt}
    /\ pc \in {"idle", "decode", "count"} => rgb = None
    /\ pc \in {"prepare", "analyse", "draw", "save"} => rgb # None
    /\ pc \in {"prepare", "analyse"} => rgb = frame
    /\ rgb # None => IsImage(rgb) /\ frame \in Pictures /\ Size(rgb) = Size(frame)
    /\ pc \in {"idle", "decode", "prepare", "analyse", "draw"} => ~ok
    /\ event => counters["events"] > 0
    /\ pc = "save" => event

\* motion_previous and what is counted.
ServiceShape ==
    /\ prevSize \in {<<0, 0>>} \cup { Size(pic) : pic \in Pictures }
    /\ hasPrev \in BOOLEAN /\ wasDetected \in BOOLEAN
    /\ prev # None => prev \in Kept /\ prev.size = prevSize
    /\ motion.blocks \subseteq Blocks
    /\ counters \in [Counter -> Nat]
    /\ DOMAIN files \subseteq 1..counters["events"]
    /\ seen \in Seq(Pictures \cup {None})

\* The LCD and its counters.
LcdShape ==
    /\ config.display = "usable" =>
          panel \in Panels /\ DOMAIN lcd = 0..panel.mem-1 /\ BesideTheScreen
    /\ config.display = "unsupported" => ~ok
    /\ config.display # "none" =>
          /\ (counters["lcdFrames"] > 0 \/ ok) = (screen # None)
          /\ pc = "count" /\ ok => counters["lcdFrames"] > 0
          /\ counters["lcdFrames"] + counters["lcdErrors"]
               = counters["captured"] + IF pc = "count" THEN 1 ELSE 0

PInv == LocalsShape /\ ServiceShape /\ LcdShape /\ ComparesCameraPictures

-----------------------------------------------------------------------------
(* Data                                                                    *)

LEMMA Bumped ==
    ASSUME counters \in [Counter -> Nat], NEW names, Bump(names)
    PROVE  /\ counters' \in [Counter -> Nat]
           /\ \A n \in Counter : counters'[n] = counters[n] + IF n \in names THEN 1 ELSE 0
BY DEF Bump

\* The counters of the LCD are counters.
LEMMA Counters ==
    {"captured", "events", "lcdFrames", "lcdErrors"} \subseteq Counter
BY DEF Counter

\* A snapshot or an error leaves them alone.
LEMMA OtherCounters ==
    ASSUME counters \in [Counter -> Nat], NEW name \in {"snapshots", "errors"}, Bump({name})
    PROVE  /\ counters' \in [Counter -> Nat]
           /\ \A n \in {"captured", "events", "lcdFrames", "lcdErrors"} :
                 counters'[n] = counters[n]
<1>1. /\ counters' \in [Counter -> Nat]
      /\ \A n \in Counter : counters'[n] = counters[n] + IF n \in {name} THEN 1 ELSE 0
  BY Bumped
<1>2. \A n \in {"captured", "events", "lcdFrames", "lcdErrors"} :
         n \notin {name} /\ counters[n] \in Nat
  BY Counters
<1>3. QED
  BY <1>1, <1>2, Counters

\* The last of a sequence that has got one more.
LEMMA Appended ==
    ASSUME NEW S, NEW seq \in Seq(S), NEW x \in S
    PROVE  /\ Append(seq, x) \in Seq(S) /\ Append(seq, x) # <<>>
           /\ Append(seq, x)[Len(Append(seq, x))] = x
<1>1. /\ Append(seq, x) \in Seq(S) /\ Len(Append(seq, x)) = Len(seq) + 1
      /\ Append(seq, x)[Len(seq) + 1] = x /\ Len(seq) \in Nat
  OBVIOUS
<1>2. Append(seq, x) # <<>>
  <2>1. Len(Append(seq, x)) # 0
    BY <1>1
  <2>2. Len(<<>>) = 0
    OBVIOUS
  <2>3. QED
    BY <2>1, <2>2, Zenon
<1>3. QED
  BY <1>1, <1>2

\* What a picture is.
LEMMA ImageShape ==
    ASSUME NEW img, IsImage(img)
    PROVE  /\ img.w \in Nat \ {0} /\ img.h \in Nat \ {0}
           /\ img = [w |-> img.w, h |-> img.h, px |-> img.px]
           /\ img.px \in [0..img.w*img.h-1 -> Nat]
BY PipelineAssumption DEF IsImage

\* The colour of the mask is a colour.
LEMMA TintIsColour == ASSUME NEW v \in Nat PROVE RedTint(v) \in Nat
<1>1. Red(v) \in Nat /\ Green(v) \in Nat /\ Blue(v) \in Nat
  BY DEF Red, Green, Blue
<1>2. QED
  BY <1>1 DEF RedTint

\* Colouring the moving blocks leaves an image of the same size.
LEMMA TintedImage ==
    ASSUME NEW img, IsImage(img), NEW blocks
    PROVE  IsImage(Tinted(img, blocks)) /\ Size(Tinted(img, blocks)) = Size(img)
<1> DEFINE px == [i \in DOMAIN img.px |-> IF i \in Mask(img, blocks)
                                          THEN RedTint(img.px[i]) ELSE img.px[i]]
<1>1. /\ img = [w |-> img.w, h |-> img.h, px |-> img.px]
      /\ img.px \in [0..img.w*img.h-1 -> Nat]
  BY ImageShape
<1>2. px \in [0..img.w*img.h-1 -> Nat]
  BY <1>1, TintIsColour
<1>3. Tinted(img, blocks) = [w |-> img.w, h |-> img.h, px |-> px]
  <2> HIDE DEF px
  <2>1. Tinted(img, blocks) = [img EXCEPT !.px = px]
    BY DEF Tinted, px
  <2>2. QED
    BY <1>1, <2>1
<1> HIDE DEF px
<1>4. PICK pic \in Pictures : img \in [w : {pic.w}, h : {pic.h}, px : [0..pic.w*pic.h-1 -> Nat]]
  BY DEF IsImage
<1>5. img.w = pic.w /\ img.h = pic.h
  BY <1>4
<1>6. Tinted(img, blocks) \in [w : {pic.w}, h : {pic.h}, px : [0..pic.w*pic.h-1 -> Nat]]
  BY <1>2, <1>3, <1>5
<1>7. QED
  BY <1>3, <1>6 DEF IsImage, Size

\* A picture of the camera is an image, and neither Corrupt nor None.
LEMMA PictureShape ==
    ASSUME NEW pic \in Pictures
    PROVE  IsImage(pic) /\ pic # Corrupt /\ pic # None
BY PipelineAssumption

-----------------------------------------------------------------------------
(* The steps                                                               *)

\* A step that keeps motion_previous keeps what it is compared with.
LEMMA PreviousStays ==
    ASSUME ComparesCameraPictures, UNCHANGED <<previous, seen>>, pc' # "analyse"
    PROVE  ComparesCameraPictures'
BY DEF ComparesCameraPictures, previous

LEMMA TakeFrameStep ==
    ASSUME PInv, NEW f \in Pictures \cup {Corrupt}, TakeFrame(f)
    PROVE  PInv'
<1> USE DEF PInv, TakeFrame, previous, display
<1>1. LocalsShape'
  BY DEF LocalsShape
<1>2. ServiceShape'
  BY DEF ServiceShape
<1>3. LcdShape'
  BY DEF LcdShape, LocalsShape, BesideTheScreen, Configurations
<1>4. QED
  BY <1>1, <1>2, <1>3, PreviousStays

LEMMA DecodeStep ==
    ASSUME PInv, Decode \/ DecodeFails
    PROVE  PInv'
<1> USE DEF PInv, Decode, DecodeFails, previous, display, locals
<1>1. LocalsShape'
  BY PictureShape DEF LocalsShape
<1>2. ServiceShape'
  BY DEF ServiceShape
<1>3. LcdShape'
  BY DEF LcdShape, LocalsShape, BesideTheScreen
<1>4. QED
  BY <1>1, <1>2, <1>3, PreviousStays

LEMMA PrepareStep ==
    ASSUME PInv, Prepare
    PROVE  PInv'
<1>1. /\ pc = "prepare" /\ pc' = "analyse" /\ prevSize' = Size(rgb)
      /\ prev' = IF Resized \/ prev = None
                 THEN [size |-> Size(rgb), px |-> None] ELSE prev
      /\ hasPrev' = (hasPrev /\ ~Resized)
      /\ UNCHANGED <<config, frame, rgb, event, ok, wasDetected, motion, counters,
                     panel, lcd, screen, files, seen>>
  BY DEF Prepare, locals, display
<1>2. rgb \in Pictures /\ Size(rgb) \in { Size(pic) : pic \in Pictures }
  BY <1>1 DEF PInv, LocalsShape
<1>3. prev' \in Kept /\ prev'.size = Size(rgb)
  <2>1. CASE Resized \/ prev = None
    BY <1>1, <1>2, <2>1 DEF Kept
  <2>2. CASE ~Resized /\ prev # None
    BY <1>1, <2>2 DEF PInv, ServiceShape, Resized
  <2>3. QED
    BY <2>1, <2>2
<1>4. prev' # None
  BY <1>3, PipelineAssumption
<1>5. LocalsShape'
  BY <1>1 DEF PInv, LocalsShape
<1>6. ServiceShape'
  <2>1. hasPrev' \in BOOLEAN
    BY <1>1
  <2>2. QED
    BY <1>1, <1>2, <1>3, <2>1 DEF PInv, ServiceShape
<1>7. LcdShape'
  BY <1>1 DEF PInv, LcdShape, BesideTheScreen
<1>8. ComparesCameraPictures'
  <2>1. hasPrev' => prev' = prev /\ hasPrev
    BY <1>1 DEF PInv, ComparesCameraPictures
  <2>2. QED
    BY <1>1, <1>3, <1>4, <2>1 DEF PInv, ComparesCameraPictures
<1>9. QED
  BY <1>5, <1>6, <1>7, <1>8 DEF PInv

LEMMA PrepareFailsStep ==
    ASSUME PInv, PrepareFails
    PROVE  PInv'
<1>1. /\ pc = "prepare" /\ pc' = "finish" /\ prevSize' = Size(rgb) /\ prev' = None
      /\ (Resized \/ prev = None) /\ hasPrev' = (hasPrev /\ ~Resized)
      /\ Bump({"errors"}) /\ seen' = Append(seen, None)
      /\ UNCHANGED <<config, frame, rgb, event, ok, wasDetected, motion,
                     panel, lcd, screen, files>>
  BY DEF PrepareFails, locals, display
<1>2. rgb \in Pictures /\ Size(rgb) \in { Size(pic) : pic \in Pictures }
  BY <1>1 DEF PInv, LocalsShape
<1>3. /\ counters' \in [Counter -> Nat]
      /\ \A n \in {"captured", "events", "lcdFrames", "lcdErrors"} : counters'[n] = counters[n]
  BY <1>1, OtherCounters DEF PInv, ServiceShape
<1>4. hasPrev' = FALSE
  BY <1>1 DEF PInv, ComparesCameraPictures
<1>5. LocalsShape'
  BY <1>1, <1>3 DEF PInv, LocalsShape
<1>6. ServiceShape'
  <2>1. seen' \in Seq(Pictures \cup {None})
    BY <1>1, Appended DEF PInv, ServiceShape
  <2>2. QED
    BY <1>1, <1>2, <1>3, <1>4, <2>1 DEF PInv, ServiceShape
<1>7. LcdShape'
  BY <1>1, <1>3 DEF PInv, LcdShape, BesideTheScreen
<1>8. ComparesCameraPictures'
  BY <1>1, <1>4 DEF ComparesCameraPictures
<1>9. QED
  BY <1>5, <1>6, <1>7, <1>8 DEF PInv

LEMMA AnalyseStep ==
    ASSUME PInv, Analyse
    PROVE  PInv'
<1> DEFINE names == {"processed"} \cup (IF Moved # {} THEN {"active"} ELSE {})
                        \cup (IF NewEvent THEN {"events"} ELSE {})
<1>1. /\ pc = "analyse" /\ pc' = "draw" /\ prev' = [prev EXCEPT !.px = rgb.px]
      /\ hasPrev' = TRUE /\ motion' = [w |-> rgb.w, h |-> rgb.h, blocks |-> Moved]
      /\ Bump(names) /\ event' = NewEvent /\ wasDetected' = (Moved # {})
      /\ rgb' = IF config.display # "none" /\ Moved # {} THEN Tinted(rgb, Moved) ELSE rgb
      /\ seen' = Append(seen, frame)
      /\ UNCHANGED <<config, frame, ok, prevSize, panel, lcd, screen, files>>
  BY DEF Analyse, Remember, display
<1>2. rgb = frame /\ frame \in Pictures /\ IsImage(rgb)
  BY <1>1 DEF PInv, LocalsShape
<1>3. prev \in Kept /\ prev.size = prevSize
  BY <1>1 DEF PInv, ServiceShape, ComparesCameraPictures
<1>4. prev' \in Kept /\ prev'.size = prevSize /\ prev'.px = frame.px
  BY <1>1, <1>2, <1>3 DEF Kept
<1>5. prev' # None
  BY <1>4, PipelineAssumption
<1>6. /\ counters' \in [Counter -> Nat]
      /\ \A n \in {"captured", "lcdFrames", "lcdErrors"} : counters'[n] = counters[n]
      /\ counters'["events"] >= counters["events"]
      /\ NewEvent => counters'["events"] > 0
      /\ counters["events"] \in Nat
  <2>1. /\ counters' \in [Counter -> Nat]
        /\ \A n \in Counter : counters'[n] = counters[n] + IF n \in names THEN 1 ELSE 0
    BY <1>1, Bumped DEF PInv, ServiceShape
  <2>2. \A n \in {"captured", "events", "lcdFrames", "lcdErrors"} : counters[n] \in Nat
    BY Counters DEF PInv, ServiceShape
  <2>3. "captured" \notin names /\ "lcdFrames" \notin names /\ "lcdErrors" \notin names
    OBVIOUS
  <2>4. NewEvent => "events" \in names
    OBVIOUS
  <2> HIDE DEF names
  <2>5. QED
    BY <2>1, <2>2, <2>3, <2>4, Counters
<1>7. IsImage(rgb') /\ Size(rgb') = Size(frame) /\ rgb' # None
  <2>1. IsImage(rgb') /\ Size(rgb') = Size(frame)
    BY <1>1, <1>2, TintedImage
  <2>2. QED
    BY <2>1, PipelineAssumption
<1>8. (Moved # {}) \in BOOLEAN /\ NewEvent \in BOOLEAN
  BY DEF NewEvent
<1>9. LocalsShape'
  <2>1. Size(rgb)' = Size(frame)'
    BY <1>1, <1>7 DEF Size
  <2>2. QED
    BY <1>1, <1>2, <1>6, <1>7, <1>8, <2>1 DEF PInv, LocalsShape
<1>10. ServiceShape'
  <2>1. seen' \in Seq(Pictures \cup {None})
    BY <1>1, <1>2, Appended DEF PInv, ServiceShape
  <2>2. motion'.blocks \subseteq Blocks
    BY <1>1 DEF Moved, ActiveBlocks
  <2>3. DOMAIN files \subseteq 1..counters'["events"]
    BY <1>6, Counters DEF PInv, ServiceShape
  <2>4. QED
    BY <1>1, <1>4, <1>6, <1>8, <2>1, <2>2, <2>3 DEF PInv, ServiceShape
<1>11. LcdShape'
  BY <1>1, <1>6 DEF PInv, LcdShape, BesideTheScreen
<1>12. ComparesCameraPictures'
  <2>1. /\ seen' # <<>> /\ seen'[Len(seen')] = frame
    BY <1>1, <1>2, Appended DEF PInv, ServiceShape
  <2>2. frame # None
    BY <1>2, PictureShape
  <2>3. QED
    BY <1>1, <1>4, <1>5, <2>1, <2>2 DEF ComparesCameraPictures
<1>13. QED
  BY <1>9, <1>10, <1>11, <1>12 DEF PInv

LEMMA DrawStep ==
    ASSUME PInv, Draw
    PROVE  PInv'
<1>1. /\ pc = "draw" /\ config.display # "unsupported" /\ ok' = TRUE
      /\ pc' = IF event /\ config.save THEN "save" ELSE "finish"
      /\ IF config.display = "usable"
         THEN screen' = rgb /\ lcd' = DrawPicture(panel, lcd, rgb)
         ELSE UNCHANGED <<screen, lcd>>
      /\ UNCHANGED <<config, frame, rgb, event, previous, motion, counters, panel, files, seen>>
  BY DEF Draw
<1>2. LocalsShape'
  BY <1>1 DEF PInv, LocalsShape, Size
<1>3. ServiceShape'
  BY <1>1 DEF PInv, ServiceShape, previous
<1>4. LcdShape'
  <2>1. CASE config.display = "usable"
    <3>1. panel \in Panels /\ WellFormed(panel) /\ DOMAIN lcd = 0..panel.mem-1
      BY <2>1, PipelineAssumption DEF PInv, LcdShape
    <3>2. DOMAIN lcd' = 0..panel.mem-1
      BY <1>1, <2>1, <3>1, SameMapping DEF DrawPicture
    <3>3. \A a \in Unseen(panel) : lcd'[a] = lcd[a]
      <4> DEFINE colour == [v \in Visible(panel) |-> Unpack(rgb.px[Taken(panel, rgb, v)])]
      <4>1. lcd' = DrawAll(panel, lcd, colour)
        BY <1>1, <2>1 DEF DrawPicture
      <4> HIDE DEF colour
      <4>2. ASSUME NEW a \in Unseen(panel) PROVE lcd'[a] = lcd[a]
        <5>1. Owners(panel, a) = {} /\ a \in DOMAIN lcd
          BY <3>1, NoOwner DEF Unseen
        <5>2. QED
          BY <4>1, <5>1 DEF DrawAll
      <4>3. QED
        BY <4>2
    <3>4. BesideTheScreen'
      BY <1>1, <2>1, <3>3 DEF PInv, LcdShape, BesideTheScreen
    <3>5. screen' # None
      BY <1>1, <2>1 DEF PInv, LocalsShape
    <3>6. QED
      BY <1>1, <2>1, <3>1, <3>2, <3>4, <3>5 DEF PInv, LcdShape
  <2>2. CASE config.display = "none"
    BY <1>1, <2>2 DEF LcdShape
  <2>3. QED
    BY <1>1, <2>1, <2>2 DEF PInv, LocalsShape, Configurations
<1>5. QED
  BY <1>1, <1>2, <1>3, <1>4, PreviousStays DEF PInv

LEMMA DrawFailsStep ==
    ASSUME PInv, DrawFails
    PROVE  PInv'
<1> USE DEF PInv, DrawFails, previous, display, locals
<1>1. LocalsShape'
  BY DEF LocalsShape, Size
<1>2. ServiceShape'
  BY DEF ServiceShape
<1>3. LcdShape'
  BY DEF LcdShape, LocalsShape, BesideTheScreen
<1>4. QED
  BY <1>1, <1>2, <1>3, PreviousStays

\* Saved or not, the file has the number of the event.
LEMMA SaveStep ==
    ASSUME PInv, Save \/ SaveFails
    PROVE  PInv'
<1>1. /\ pc = "save" /\ pc' = "finish"
      /\ UNCHANGED files \/ \E content : FileGets(content)
      /\ Bump({"snapshots"}) \/ Bump({"errors"})
      /\ UNCHANGED <<config, frame, rgb, event, ok, previous, motion, panel, lcd, screen, seen>>
  BY DEF Save, SaveFails, locals, display
<1>2. /\ counters' \in [Counter -> Nat]
      /\ \A n \in {"captured", "events", "lcdFrames", "lcdErrors"} : counters'[n] = counters[n]
  BY <1>1, OtherCounters DEF PInv, ServiceShape
<1>3. counters["events"] \in Nat /\ counters["events"] > 0
  BY <1>1, Counters DEF PInv, LocalsShape, ServiceShape
<1>4. DOMAIN files' \subseteq 1..counters["events"]
  BY <1>1, <1>3 DEF FileGets, PInv, ServiceShape
<1>5. LocalsShape'
  BY <1>1, <1>2 DEF PInv, LocalsShape, Size
<1>6. ServiceShape'
  BY <1>1, <1>2, <1>4 DEF PInv, ServiceShape, previous
<1>7. LcdShape'
  BY <1>1, <1>2 DEF PInv, LcdShape, BesideTheScreen
<1>8. QED
  BY <1>1, <1>5, <1>6, <1>7, PreviousStays DEF PInv

LEMMA FinishStep ==
    ASSUME PInv, Finish
    PROVE  PInv'
<1>1. /\ pc = "finish" /\ pc' = "count" /\ rgb' = None /\ Bump(LcdOutcome)
      /\ UNCHANGED <<config, frame, event, ok, previous, motion, panel, lcd, screen, files, seen>>
  BY DEF Finish, display
<1>2. /\ counters' \in [Counter -> Nat]
      /\ \A n \in Counter : counters'[n] = counters[n] + IF n \in LcdOutcome THEN 1 ELSE 0
  BY <1>1, Bumped DEF PInv, ServiceShape
<1>3. \A n \in {"captured", "events", "lcdFrames", "lcdErrors"} : counters[n] \in Nat
  BY Counters DEF PInv, ServiceShape
<1>4. counters'["captured"] = counters["captured"] /\ counters'["events"] = counters["events"]
  BY <1>2, <1>3, Counters DEF LcdOutcome
<1>5. LocalsShape'
  BY <1>1, <1>4 DEF PInv, LocalsShape
<1>6. ServiceShape'
  BY <1>1, <1>2, <1>4 DEF PInv, ServiceShape, previous
<1>7. LcdShape'
  <2>1. CASE config.display = "none"
    BY <1>1, <2>1 DEF LcdShape
  <2>2. CASE config.display # "none" /\ ok
    <3>1. /\ counters'["lcdFrames"] = counters["lcdFrames"] + 1
          /\ counters'["lcdErrors"] = counters["lcdErrors"]
      BY <1>2, <1>3, <2>2, Counters DEF LcdOutcome
    <3>2. QED
      BY <1>1, <1>3, <1>4, <2>2, <3>1 DEF PInv, LcdShape, BesideTheScreen
  <2>3. CASE config.display # "none" /\ ~ok
    <3>1. /\ counters'["lcdFrames"] = counters["lcdFrames"]
          /\ counters'["lcdErrors"] = counters["lcdErrors"] + 1
      BY <1>2, <1>3, <2>3, Counters DEF LcdOutcome
    <3>2. QED
      BY <1>1, <1>3, <1>4, <2>3, <3>1 DEF PInv, LcdShape, BesideTheScreen
  <2>4. QED
    BY <2>1, <2>2, <2>3
<1>8. QED
  BY <1>1, <1>5, <1>6, <1>7, PreviousStays DEF PInv

LEMMA CountStep ==
    ASSUME PInv, Count
    PROVE  PInv'
<1>1. /\ pc = "count" /\ pc' = "idle" /\ Bump({"captured"})
      /\ frame' = None /\ event' = FALSE /\ ok' = FALSE
      /\ UNCHANGED <<config, rgb, previous, motion, panel, lcd, screen, files, seen>>
  BY DEF Count, display
<1>2. /\ counters' \in [Counter -> Nat]
      /\ counters'["captured"] = counters["captured"] + 1
      /\ \A n \in {"events", "lcdFrames", "lcdErrors"} : counters'[n] = counters[n]
      /\ \A n \in {"captured", "events", "lcdFrames", "lcdErrors"} : counters[n] \in Nat
  BY <1>1, Bumped, Counters DEF PInv, ServiceShape
<1>3. LocalsShape'
  BY <1>1 DEF PInv, LocalsShape
<1>4. ServiceShape'
  BY <1>1, <1>2 DEF PInv, ServiceShape, previous
<1>5. LcdShape'
  BY <1>1, <1>2 DEF PInv, LcdShape, BesideTheScreen
<1>6. QED
  BY <1>1, <1>3, <1>4, <1>5, PreviousStays DEF PInv

LEMMA PipelineInit == ASSUME Init PROVE PInv
<1>1. LocalsShape
  BY DEF Init, LocalsShape
<1>2. ServiceShape
  <2>1. counters \in [Counter -> Nat]
    BY DEF Init
  <2>2. DOMAIN files = {} /\ seen \in Seq(Pictures \cup {None})
    BY DEF Init
  <2>3. prev = None /\ prevSize = <<0, 0>> /\ motion.blocks = {}
        /\ hasPrev = FALSE /\ wasDetected = FALSE
    BY DEF Init
  <2>4. QED
    BY <2>1, <2>2, <2>3 DEF ServiceShape
<1>3. LcdShape
  <2>1. \A n \in {"captured", "events", "lcdFrames", "lcdErrors"} : counters[n] = 0
    BY Counters DEF Init
  <2>2. config.display = "usable" =>
           panel \in Panels /\ DOMAIN lcd = 0..panel.mem-1 /\ BesideTheScreen
    BY DEF Init, BesideTheScreen, Unseen
  <2>3. ok = FALSE /\ screen = None /\ pc = "idle"
    BY DEF Init
  <2>4. QED
    BY <2>1, <2>2, <2>3 DEF LcdShape
<1>4. ComparesCameraPictures
  BY DEF Init, ComparesCameraPictures
<1>5. QED
  BY <1>1, <1>2, <1>3, <1>4 DEF PInv

-----------------------------------------------------------------------------
(* The theorems                                                            *)

\* Between any two steps of the capture thread the pipeline is what PInv says.
THEOREM PipelineInvariance == Spec => []PInv
<1>1. ASSUME PInv, [Next]_vars PROVE PInv'
  <2>1. CASE \E f \in Pictures \cup {Corrupt} : TakeFrame(f)
    BY <1>1, <2>1, TakeFrameStep
  <2>2. CASE Decode \/ DecodeFails
    BY <1>1, <2>2, DecodeStep
  <2>3. CASE Prepare
    BY <1>1, <2>3, PrepareStep
  <2>4. CASE PrepareFails
    BY <1>1, <2>4, PrepareFailsStep
  <2>5. CASE Analyse
    BY <1>1, <2>5, AnalyseStep
  <2>6. CASE Draw
    BY <1>1, <2>6, DrawStep
  <2>7. CASE DrawFails
    BY <1>1, <2>7, DrawFailsStep
  <2>8. CASE Save \/ SaveFails
    BY <1>1, <2>8, SaveStep
  <2>9. CASE Finish
    BY <1>1, <2>9, FinishStep
  <2>10. CASE Count
    BY <1>1, <2>10, CountStep
  <2>11. CASE Stopped \/ UNCHANGED vars
    BY <1>1, <2>11 DEF Stopped, vars, locals, previous, display, PInv, LocalsShape,
       ServiceShape, LcdShape, ComparesCameraPictures, BesideTheScreen, Size
  <2>12. QED
    BY <1>1, <2>1, <2>2, <2>3, <2>4, <2>5, <2>6, <2>7, <2>8, <2>9, <2>10, <2>11 DEF Next
<1>2. QED
  BY <1>1, PipelineInit, PTL DEF Spec

\* Every variable keeps its type.
THEOREM PipelineTypes == Spec => []TypeOK
<1>1. ASSUME PInv PROVE TypeOK
  BY <1>1, PictureShape, PipelineAssumption DEF PInv, LocalsShape, ServiceShape, TypeOK
<1>2. QED
  BY <1>1, PipelineInvariance, PTL

\* Motion detection compares two pictures of the camera, of one size and in
\* memory that is there, for any sizes and any order of failures.
THEOREM ComparesWhatItShould == Spec => []ComparesCameraPictures
<1>1. PInv => ComparesCameraPictures
  BY DEF PInv
<1>2. QED
  BY <1>1, PipelineInvariance, PTL

\* Every captured frame counts once as drawn or as failed.
THEOREM EveryFrameAtTheLcd == Spec => []LcdCountsEveryFrame
<1>1. ASSUME PInv PROVE LcdCountsEveryFrame
  BY <1>1 DEF PInv, LocalsShape, LcdShape, LcdCountsEveryFrame
<1>2. QED
  BY <1>1, PipelineInvariance, PTL

\* The preview never writes beside the screen, nor reads beside the picture:
\* not for any resolution, panning or line length, nor any picture size.
InsideBoth ==
    config.display = "usable" =>
        /\ BesideTheScreen
        /\ pc = "draw" => \A v \in Visible(panel) : Taken(panel, rgb, v) \in DOMAIN rgb.px

THEOREM PreviewStaysInside == Spec => []InsideBoth
<1>1. ASSUME PInv PROVE InsideBoth
  <2> SUFFICES ASSUME config.display = "usable"
               PROVE  /\ BesideTheScreen
                      /\ pc = "draw" => \A v \in Visible(panel) :
                                           Taken(panel, rgb, v) \in DOMAIN rgb.px
    BY DEF InsideBoth
  <2>1. BesideTheScreen /\ WellFormed(panel)
    BY <1>1, PipelineAssumption DEF PInv, LcdShape
  <2>2. ASSUME pc = "draw", NEW v \in Visible(panel)
        PROVE  Taken(panel, rgb, v) \in DOMAIN rgb.px
    <3>1. IsImage(rgb)
      BY <1>1, <2>2 DEF PInv, LocalsShape
    <3>2. /\ rgb.w \in Nat \ {0} /\ rgb.h \in Nat \ {0}
          /\ DOMAIN rgb.px = 0..rgb.w*rgb.h-1
      BY <3>1, ImageShape
    <3>3. QED
      BY <2>1, <2>2, <3>2, ReadsInsideThePicture
  <2>3. QED
    BY <2>1, <2>2
<1>2. QED
  BY <1>1, PipelineInvariance, PTL

-----------------------------------------------------------------------------
(* Least and greatest numbers                                              *)

LEMMA LeastNumber ==
    ASSUME NEW S \in SUBSET Nat, S # {}
    PROVE  \E m \in S : \A k \in S : m <= k
<1> DEFINE D == { 0..k : k \in S }
<1>1. D \subseteq FiniteSubsetsOf(Nat)
  <2>1. ASSUME NEW k \in S PROVE 0..k \in FiniteSubsetsOf(Nat)
    BY FS_Interval DEF FiniteSubsetsOf
  <2>2. QED
    BY <2>1
<1>2. D # {}
  OBVIOUS
<1>3. PICK X \in D : \A Y \in D : <<Y, X>> \notin StrictSubsetOrdering(Nat)
  <2>1. IsWellFoundedOn(StrictSubsetOrdering(Nat), FiniteSubsetsOf(Nat))
    BY FS_StrictSubsetOrderingWellFounded
  <2> HIDE DEF D
  <2>2. QED
    BY <1>1, <1>2, <2>1, WFMin
<1>4. PICK m \in S : X = 0..m
  BY <1>3
<1>5. ASSUME NEW k \in S, k < m PROVE FALSE
  <2>1. 0..k \in SUBSET Nat /\ 0..m \in SUBSET Nat
    OBVIOUS
  <2>2. 0..k \subseteq 0..m /\ 0..k # 0..m
    <3>1. m \in 0..m /\ m \notin 0..k
      BY <1>5
    <3>2. 0..k \subseteq 0..m
      BY <1>5
    <3>3. QED
      BY <3>1, <3>2
  <2>3. <<0..k, X>> \in StrictSubsetOrdering(Nat)
    BY <1>4, <2>1, <2>2 DEF StrictSubsetOrdering
  <2>4. 0..k \in D
    OBVIOUS
  <2>5. QED
    BY <1>3, <2>3, <2>4
<1>6. QED
  BY <1>4, <1>5

LEMMA GreatestNumber ==
    ASSUME NEW S \in SUBSET Nat, S # {}, NEW n \in Nat, \A k \in S : k <= n
    PROVE  \E m \in S : \A k \in S : k <= m
<1> DEFINE T == { n - k : k \in S }
<1>1. T \in SUBSET Nat /\ T # {}
  <2>1. ASSUME NEW k \in S PROVE n - k \in Nat
    BY <2>1
  <2>2. PICK k \in S : TRUE
    OBVIOUS
  <2>3. n - k \in T
    BY <2>2
  <2>4. QED
    BY <2>1, <2>3
<1>2. PICK t \in T : \A u \in T : t <= u
  <2> HIDE DEF T
  <2>1. QED
    BY <1>1, LeastNumber
<1>3. PICK m \in S : t = n - m
  BY <1>2
<1>4. ASSUME NEW k \in S PROVE k <= m
  <2>1. n - k \in T
    OBVIOUS
  <2>2. n - m <= n - k
    BY <1>2, <1>3, <2>1
  <2>3. QED
    BY <2>2
<1>5. QED
  BY <1>4

\* Max and Min, once there is such a number.
LEMMA MaxIs ==
    ASSUME NEW S \in SUBSET Nat, NEW m \in S, \A k \in S : k <= m
    PROVE  Max(S) = m
<1>1. \A k \in S : m >= k
  OBVIOUS
<1>2. ASSUME NEW x \in S, \A k \in S : x >= k PROVE x = m
  BY <1>2
<1>3. QED
  BY <1>1, <1>2 DEF Max

LEMMA MinIs ==
    ASSUME NEW S \in SUBSET Nat, NEW m \in S, \A k \in S : m <= k
    PROVE  Min(S) = m
<1>1. ASSUME NEW x \in S, \A k \in S : x =< k PROVE x = m
  BY <1>1
<1>2. QED
  BY <1>1 DEF Min

LEMMA MaxInside ==
    ASSUME NEW S \in SUBSET Nat, S # {}, NEW n \in Nat, \A k \in S : k <= n
    PROVE  Max(S) \in S /\ \A k \in S : k <= Max(S)
<1>1. PICK m \in S : \A k \in S : k <= m
  BY GreatestNumber
<1>2. Max(S) = m
  BY <1>1, MaxIs
<1>3. QED
  BY <1>1, <1>2

LEMMA MinInside ==
    ASSUME NEW S \in SUBSET Nat, S # {}
    PROVE  Min(S) \in S /\ \A k \in S : Min(S) <= k
<1>1. PICK m \in S : \A k \in S : m <= k
  BY LeastNumber
<1>2. Min(S) = m
  BY <1>1, MinIs
<1>3. QED
  BY <1>1, <1>2

-----------------------------------------------------------------------------
(* The history of the pictures                                             *)

\* The operators of EventsAreRises for any history s.
Compared(s) == { i \in DOMAIN s : s[i] # None }
MovesAt(s, i) ==
    /\ i > 1 /\ s[i] # None /\ s[i-1] # None
    /\ Size(s[i]) = Size(s[i-1])
    /\ ActiveBlocks(s[i-1].px, s[i]) # {}
MovedIn(s) == { i \in Compared(s) : MovesAt(s, i) }
Earlier(s, i) == { j \in Compared(s) : j < i }
Rises(s) ==
    { i \in MovedIn(s) : Earlier(s, i) = {} \/ Max(Earlier(s, i)) \notin MovedIn(s) }
LastMoved(s) == Compared(s) # {} /\ Max(Compared(s)) \in MovedIn(s)

LEMMA Grown ==
    ASSUME NEW S, NEW s \in Seq(S), NEW x \in S
    PROVE  LET t == Append(s, x)
               n == Len(s) + 1
           IN  /\ n \in Nat /\ n > 0 /\ Len(t) = n
               /\ DOMAIN s = 1..Len(s) /\ DOMAIN t = 1..n
               /\ t[n] = x /\ \A i \in 1..Len(s) : t[i] = s[i]
OBVIOUS

LEMMA OldMovesKept ==
    ASSUME NEW S, NEW s \in Seq(S), NEW x \in S, NEW i \in 0..Len(s)
    PROVE  MovesAt(Append(s, x), i) <=> MovesAt(s, i)
<1>1. CASE i > 1
  <2>1. i \in 1..Len(s) /\ i - 1 \in 1..Len(s)
    BY <1>1
  <2>2. QED
    BY <2>1, Grown DEF MovesAt
<1>2. CASE ~(i > 1)
  BY <1>2 DEF MovesAt
<1>3. QED
  BY <1>1, <1>2

LEMMA HistorySets ==
    ASSUME NEW S, NEW s \in Seq(S)
    PROVE  /\ Compared(s) \in SUBSET Nat /\ Compared(s) \subseteq 1..Len(s)
           /\ Len(s) \in Nat
           /\ IsFiniteSet(Compared(s)) /\ IsFiniteSet(MovedIn(s))
           /\ IsFiniteSet(Rises(s)) /\ IsFiniteSet({ i \in DOMAIN s : s[i] = None })
<1>1. Compared(s) \subseteq 1..Len(s) /\ Len(s) \in Nat /\ DOMAIN s = 1..Len(s)
  BY DEF Compared
<1>2. IsFiniteSet(1..Len(s))
  BY <1>1, FS_Interval
<1>3. ASSUME NEW T, T \subseteq 1..Len(s) PROVE IsFiniteSet(T)
  BY <1>2, <1>3, FS_Subset
<1>4. MovedIn(s) \subseteq 1..Len(s) /\ Rises(s) \subseteq 1..Len(s)
  BY <1>1 DEF MovedIn, Rises
<1>5. QED
  BY <1>1, <1>3, <1>4

\* A picture that was not compared changes nothing.
LEMMA NotComparedGrows ==
    ASSUME NEW S, NEW s \in Seq(S), None \in S
    PROVE  LET t == Append(s, None)
           IN  /\ Compared(t) = Compared(s) /\ MovedIn(t) = MovedIn(s)
               /\ Rises(t) = Rises(s)
               /\ LastMoved(t) <=> LastMoved(s)
               /\ { i \in DOMAIN t : t[i] = None } =
                      { i \in DOMAIN s : s[i] = None } \cup {Len(s) + 1}
<1> DEFINE t == Append(s, None)
<1>1. /\ DOMAIN s = 1..Len(s) /\ DOMAIN t = 1..Len(s)+1 /\ Len(s) \in Nat
      /\ t[Len(s) + 1] = None /\ \A i \in 1..Len(s) : t[i] = s[i]
  BY Grown
<1>2. \A i \in 1..Len(s) : MovesAt(t, i) <=> MovesAt(s, i)
  BY <1>1, OldMovesKept
<1> HIDE DEF t
<1>3. Compared(t) = Compared(s)
  BY <1>1 DEF Compared
<1>4. MovedIn(t) = MovedIn(s)
  BY <1>1, <1>2, <1>3, HistorySets DEF MovedIn
<1>5. Rises(t) = Rises(s)
  BY <1>3, <1>4 DEF Rises, Earlier
<1>6. LastMoved(t) <=> LastMoved(s)
  BY <1>3, <1>4 DEF LastMoved
<1>7. { i \in DOMAIN t : t[i] = None } = { i \in DOMAIN s : s[i] = None } \cup {Len(s) + 1}
  BY <1>1
<1>8. QED
  BY <1>3, <1>4, <1>5, <1>6, <1>7 DEF t

\* A compared picture is a motion event if it moved and the last compared one
\* before it did not.
LEMMA ComparedGrows ==
    ASSUME NEW S, NEW s \in Seq(S), NEW x \in S, x # None
    PROVE  LET t == Append(s, x)
               n == Len(s) + 1
           IN  /\ Compared(t) = Compared(s) \cup {n}
               /\ MovedIn(t) = MovedIn(s) \cup (IF MovesAt(t, n) THEN {n} ELSE {})
               /\ Rises(t) = Rises(s)
                     \cup (IF MovesAt(t, n) /\ ~LastMoved(s) THEN {n} ELSE {})
               /\ LastMoved(t) <=> MovesAt(t, n)
               /\ n \notin Compared(s)
               /\ { i \in DOMAIN t : t[i] = None } = { i \in DOMAIN s : s[i] = None }
<1> DEFINE t == Append(s, x)
           n == Len(s) + 1
<1>1. /\ DOMAIN s = 1..Len(s) /\ DOMAIN t = 1..n /\ Len(s) \in Nat
      /\ t[n] = x /\ \A i \in 1..Len(s) : t[i] = s[i]
      /\ n \in Nat /\ \A i \in 1..Len(s) : i < n /\ i # n
  BY Grown
<1>2. \A i \in 1..Len(s) : MovesAt(t, i) <=> MovesAt(s, i)
  BY <1>1, OldMovesKept
<1> HIDE DEF t
<1>3. Compared(t) = Compared(s) \cup {n} /\ n \notin Compared(s)
  BY <1>1 DEF Compared
<1>4. \A i \in Compared(s) : i \in 1..Len(s) /\ i # n /\ i < n
  <2>1. Compared(s) \subseteq 1..Len(s)
    BY HistorySets
  <2> HIDE DEF n
  <2>2. QED
    BY <1>1, <2>1
<1>5. /\ MovedIn(t) = MovedIn(s) \cup (IF MovesAt(t, n) THEN {n} ELSE {})
      /\ \A i \in Compared(s) : i \in MovedIn(t) <=> i \in MovedIn(s)
  BY <1>2, <1>3, <1>4 DEF MovedIn
<1>6. Compared(s) # {} => Max(Compared(s)) \in Compared(s)
  <2>1. \A k \in Compared(s) : k <= n
    BY <1>1, <1>4
  <2>2. Compared(s) \in SUBSET Nat
    BY HistorySets
  <2> HIDE DEF n
  <2>3. QED
    BY <1>1, <2>1, <2>2, MaxInside
<1>7. Earlier(t, n) = Compared(s)
  BY <1>1, <1>3, <1>4 DEF Earlier
<1>8. n \in Rises(t) <=> MovesAt(t, n) /\ ~LastMoved(s)
  <2>1. n \in MovedIn(t) <=> MovesAt(t, n)
    BY <1>3 DEF MovedIn
  <2>2. QED
    BY <1>5, <1>6, <1>7, <2>1 DEF Rises, LastMoved
<1>9. ASSUME NEW i \in Compared(s) PROVE i \in Rises(t) <=> i \in Rises(s)
  <2>1. Earlier(t, i) = Earlier(s, i)
    BY <1>1, <1>3, <1>4 DEF Earlier
  <2>2. Earlier(s, i) # {} => Max(Earlier(s, i)) \in Compared(s)
    <3>1. Earlier(s, i) \in SUBSET Nat /\ \A k \in Earlier(s, i) : k <= n
      BY <1>1, <1>4 DEF Earlier
    <3>2. Earlier(s, i) # {} => Max(Earlier(s, i)) \in Earlier(s, i)
      <4> HIDE DEF n
      <4>1. QED
        BY <1>1, <3>1, MaxInside
    <3>3. QED
      BY <3>2 DEF Earlier
  <2>3. QED
    BY <1>5, <2>1, <2>2 DEF Rises
<1>10. Rises(t) = Rises(s) \cup (IF MovesAt(t, n) /\ ~LastMoved(s) THEN {n} ELSE {})
  <2>1. Rises(t) \subseteq Compared(s) \cup {n} /\ Rises(s) \subseteq Compared(s)
    BY <1>3 DEF Rises, MovedIn
  <2>2. QED
    BY <1>8, <1>9, <2>1
<1>11. LastMoved(t) <=> MovesAt(t, n)
  <2>1. Compared(t) \in SUBSET Nat /\ n \in Compared(t) /\ \A k \in Compared(t) : k <= n
    BY <1>1, <1>3, <1>4
  <2>2. Max(Compared(t)) = n
    BY <2>1, MaxIs
  <2>3. QED
    BY <2>1, <2>2 DEF LastMoved, MovedIn
<1>12. { i \in DOMAIN t : t[i] = None } = { i \in DOMAIN s : s[i] = None }
  BY <1>1
<1>13. QED
  BY <1>3, <1>5, <1>10, <1>11, <1>12 DEF t
-----------------------------------------------------------------------------
(* What motion detection remembers is the history of the pictures          *)

\* wasDetected is whether the last compared picture moved.  hasPrev is whether
\* the last picture was compared and has the size the next one must have; only
\* between the two critical sections of one frame that size may have changed.
EventShape ==
    /\ wasDetected <=> LastMoved(seen)
    /\ hasPrev => /\ Len(seen) > 0 /\ seen[Len(seen)] # None
                  /\ Size(seen[Len(seen)]) = prevSize
    /\ ~hasPrev => \/ Len(seen) = 0 \/ seen[Len(seen)] = None
                   \/ pc = "analyse" /\ Size(seen[Len(seen)]) # prevSize
    /\ counters["processed"] = Cardinality(Compared(seen))
    /\ counters["active"] = Cardinality(MovedIn(seen))
    /\ counters["events"] = Cardinality(Rises(seen))

\* One more number in a finite set is one more.
LEMMA OneMoreNumber ==
    ASSUME NEW A, IsFiniteSet(A), NEW x, x \notin A, NEW c \in BOOLEAN
    PROVE  Cardinality(A \cup (IF c THEN {x} ELSE {}))
               = Cardinality(A) + IF c THEN 1 ELSE 0
<1>1. Cardinality(A) \in Nat
  BY FS_CardinalityType
<1>2. CASE c
  <2>1. Cardinality(A \cup {x}) = Cardinality(A) + 1
    BY FS_AddElement
  <2>2. QED
    BY <1>2, <2>1
<1>3. CASE ~c
  BY <1>1, <1>3
<1>4. QED
  BY <1>2, <1>3

LEMMA EventInit == ASSUME Init PROVE EventShape
<1>1. /\ seen = <<>> /\ hasPrev = FALSE /\ wasDetected = FALSE
      /\ \A n \in {"processed", "active", "events"} : counters[n] = 0
  BY DEF Init, Counter
<1>2. Compared(seen) = {} /\ MovedIn(seen) = {} /\ Rises(seen) = {} /\ Len(seen) = 0
  BY <1>1 DEF Compared, MovedIn, Rises
<1>3. QED
  BY <1>1, <1>2, FS_EmptySet DEF EventShape, LastMoved

\* A step that neither looks at a picture nor counts one.
LEMMA QuietStep ==
    ASSUME EventShape, pc # "analyse",
           UNCHANGED <<hasPrev, prevSize, wasDetected, seen>>,
           \A n \in {"processed", "active", "events"} : counters'[n] = counters[n]
    PROVE  EventShape'
BY DEF EventShape

\* Counters that a step does not bump.
LEMMA OthersStay ==
    ASSUME PInv, NEW names, Bump(names)
    PROVE  \A n \in Counter \ names : counters'[n] = counters[n]
<1>1. \A n \in Counter : counters[n] \in Nat
  BY DEF PInv, ServiceShape
<1>2. \A n \in Counter : counters'[n] = counters[n] + IF n \in names THEN 1 ELSE 0
  BY Bumped DEF PInv, ServiceShape
<1>3. QED
  BY <1>1, <1>2

\* Each motion counter.
LEMMA MotionCounters ==
    {"processed", "active", "events"} \subseteq Counter
BY DEF Counter

LEMMA QuietSteps ==
    ASSUME PInv, EventShape,
           \/ \E f \in Pictures \cup {Corrupt} : TakeFrame(f)
           \/ Decode \/ DecodeFails \/ Draw \/ DrawFails
           \/ Save \/ SaveFails \/ Finish \/ Count
    PROVE  EventShape'
<1>1. pc # "analyse" /\ UNCHANGED <<hasPrev, prevSize, wasDetected, seen>>
  BY DEF TakeFrame, Decode, DecodeFails, Draw, DrawFails, Save, SaveFails, Finish,
     Count, previous
<1>2. \/ UNCHANGED counters
      \/ \E names : Bump(names) /\ names \cap {"processed", "active", "events"} = {}
  <2>1. CASE \/ \E f \in Pictures \cup {Corrupt} : TakeFrame(f)
             \/ Decode \/ DecodeFails \/ Draw \/ DrawFails
    BY <2>1 DEF TakeFrame, Decode, DecodeFails, Draw, DrawFails
  <2>2. CASE Save \/ SaveFails
    BY <2>2 DEF Save, SaveFails
  <2>3. CASE Finish
    BY <2>3 DEF Finish, LcdOutcome
  <2>4. CASE Count
    BY <2>4 DEF Count
  <2>5. QED
    BY <2>1, <2>2, <2>3, <2>4
<1>3. \A n \in {"processed", "active", "events"} : counters'[n] = counters[n]
  BY <1>2, OthersStay, MotionCounters
<1>4. QED
  BY <1>1, <1>3, QuietStep

LEMMA PrepareKeepsEvents ==
    ASSUME PInv, EventShape, Prepare
    PROVE  EventShape'
<1>1. /\ pc = "prepare" /\ pc' = "analyse" /\ prevSize' = Size(rgb)
      /\ hasPrev' = (hasPrev /\ prevSize = Size(rgb))
      /\ UNCHANGED <<wasDetected, counters, seen>>
  BY DEF Prepare, Resized
<1>2. QED
  BY <1>1 DEF EventShape

LEMMA PrepareFailsKeepsEvents ==
    ASSUME PInv, EventShape, PrepareFails
    PROVE  EventShape'
<1>1. /\ Bump({"errors"}) /\ seen' = Append(seen, None) /\ wasDetected' = wasDetected
      /\ hasPrev' = FALSE
  BY DEF PrepareFails, PInv, ComparesCameraPictures
<1>2. seen \in Seq(Pictures \cup {None}) /\ None \in Pictures \cup {None}
  BY DEF PInv, ServiceShape
<1>3. /\ Compared(seen') = Compared(seen) /\ MovedIn(seen') = MovedIn(seen)
      /\ Rises(seen') = Rises(seen)
      /\ LastMoved(seen') <=> LastMoved(seen)
  BY <1>1, <1>2, NotComparedGrows
<1>4. seen'[Len(seen')] = None
  BY <1>1, <1>2, Appended
<1>5. \A n \in {"processed", "active", "events"} : counters'[n] = counters[n]
  BY <1>1, OthersStay, MotionCounters
<1>6. wasDetected' <=> LastMoved(seen')
  BY <1>1, <1>3 DEF EventShape
<1>7. QED
  BY <1>1, <1>3, <1>4, <1>5, <1>6 DEF EventShape

\* What the code finds out by comparing with motion_previous is what the
\* history says of the picture.
LEMMA MovedIsHistory ==
    ASSUME PInv, EventShape, pc = "analyse"
    PROVE  Moved # {} <=> MovesAt(Append(seen, frame), Len(seen) + 1)
<1> DEFINE t == Append(seen, frame)
           n == Len(seen) + 1
<1>1. frame \in Pictures /\ rgb = frame /\ frame # None /\ prevSize = Size(frame)
  BY PictureShape DEF PInv, LocalsShape, ServiceShape, ComparesCameraPictures
<1>2. seen \in Seq(Pictures \cup {None}) /\ Len(seen) \in Nat
  BY DEF PInv, ServiceShape
<1>3. t[n] = frame /\ \A i \in 1..Len(seen) : t[i] = seen[i]
  BY <1>1, <1>2, Grown
<1>4. /\ Len(seen) > 0 => t[n-1] = seen[Len(seen)] /\ n > 1 /\ n - 1 = Len(seen)
      /\ n > 1 => Len(seen) > 0
  BY <1>2, <1>3
<1> HIDE DEF t, n
<1>5. CASE hasPrev
  <2>1. /\ Len(seen) > 0 /\ seen[Len(seen)] # None
        /\ Size(seen[Len(seen)]) = Size(frame) /\ prev.px = seen[Len(seen)].px
    BY <1>1, <1>5 DEF EventShape, PInv, ComparesCameraPictures
  <2>2. MovesAt(t, n) <=> ActiveBlocks(seen[Len(seen)].px, frame) # {}
    BY <1>1, <1>3, <1>4, <2>1 DEF MovesAt
  <2>3. QED
    BY <1>1, <1>5, <2>1, <2>2 DEF Moved, t, n
<1>6. CASE ~hasPrev
  <2>1. Len(seen) = 0 \/ seen[Len(seen)] = None \/ Size(seen[Len(seen)]) # Size(frame)
    BY <1>1, <1>6 DEF EventShape
  <2>2. ~MovesAt(t, n)
    BY <1>2, <1>3, <1>4, <2>1 DEF MovesAt
  <2>3. QED
    BY <1>6, <2>2 DEF Moved, t, n
<1>7. QED
  BY <1>5, <1>6 DEF PInv, ServiceShape

LEMMA AnalyseKeepsEvents ==
    ASSUME PInv, EventShape, Analyse
    PROVE  EventShape'
<1> DEFINE names == {"processed"} \cup (IF Moved # {} THEN {"active"} ELSE {})
                        \cup (IF NewEvent THEN {"events"} ELSE {})
           n == Len(seen) + 1
           moves == MovesAt(seen', n)
           rises == moves /\ ~LastMoved(seen)
<1>1. /\ pc = "analyse" /\ hasPrev' = TRUE /\ Bump(names) /\ wasDetected' = (Moved # {})
      /\ seen' = Append(seen, frame) /\ prevSize' = prevSize
  BY DEF Analyse
<1>2. frame \in Pictures /\ rgb = frame /\ frame # None /\ prevSize = Size(frame)
  BY <1>1, PictureShape DEF PInv, LocalsShape, ServiceShape, ComparesCameraPictures
<1>3. seen \in Seq(Pictures \cup {None}) /\ Len(seen) \in Nat
  BY DEF PInv, ServiceShape
<1>4. Moved # {} <=> moves
  BY <1>1, MovedIsHistory
<1>5. NewEvent <=> rises
  BY <1>4 DEF NewEvent, EventShape
<1>6. /\ Compared(seen') = Compared(seen) \cup {n} /\ n \notin Compared(seen)
      /\ MovedIn(seen') = MovedIn(seen) \cup (IF moves THEN {n} ELSE {})
      /\ Rises(seen') = Rises(seen) \cup (IF rises THEN {n} ELSE {})
      /\ LastMoved(seen') <=> moves
  BY <1>1, <1>2, <1>3, ComparedGrows
<1>7. moves \in BOOLEAN /\ rises \in BOOLEAN
  BY DEF MovesAt
<1>8. /\ n \notin MovedIn(seen) /\ n \notin Rises(seen)
      /\ IsFiniteSet(Compared(seen)) /\ IsFiniteSet(MovedIn(seen)) /\ IsFiniteSet(Rises(seen))
  <2>1. /\ IsFiniteSet(Compared(seen)) /\ IsFiniteSet(MovedIn(seen))
        /\ IsFiniteSet(Rises(seen))
    BY <1>3, HistorySets
  <2> HIDE DEF n
  <2>2. QED
    BY <1>6, <2>1 DEF MovedIn, Rises
<1>9. seen'[Len(seen')] = frame /\ Len(seen') = n /\ n > 0
  BY <1>1, <1>2, <1>3, Grown
<1>10. /\ "processed" \in names
       /\ "active" \in names <=> moves
       /\ "events" \in names <=> rises
  BY <1>4, <1>5
<1> HIDE DEF names, n, moves, rises
<1>11. \A m \in {"processed", "active", "events"} :
          counters'[m] = counters[m] + IF m \in names THEN 1 ELSE 0
  BY <1>1, Bumped, MotionCounters DEF PInv, ServiceShape
<1>12. counters'["processed"] = Cardinality(Compared(seen'))
  <2>1. Cardinality(Compared(seen) \cup {n}) = Cardinality(Compared(seen)) + 1
    BY <1>6, <1>8, FS_AddElement
  <2>2. QED
    BY <1>6, <1>10, <1>11, <2>1 DEF EventShape
<1>13. counters'["active"] = Cardinality(MovedIn(seen'))
  <2>1. Cardinality(MovedIn(seen) \cup (IF moves THEN {n} ELSE {}))
           = Cardinality(MovedIn(seen)) + IF moves THEN 1 ELSE 0
    BY <1>7, <1>8, OneMoreNumber
  <2>2. QED
    BY <1>6, <1>10, <1>11, <2>1 DEF EventShape
<1>14. counters'["events"] = Cardinality(Rises(seen'))
  <2>1. Cardinality(Rises(seen) \cup (IF rises THEN {n} ELSE {}))
           = Cardinality(Rises(seen)) + IF rises THEN 1 ELSE 0
    BY <1>7, <1>8, OneMoreNumber
  <2>2. QED
    BY <1>6, <1>10, <1>11, <2>1 DEF EventShape
<1>15. wasDetected' <=> LastMoved(seen')
  BY <1>1, <1>4, <1>6
<1>16. /\ Len(seen') > 0 /\ seen'[Len(seen')] # None
       /\ Size(seen'[Len(seen')]) = prevSize'
  BY <1>1, <1>2, <1>9
<1>17. QED
  BY <1>1, <1>12, <1>13, <1>14, <1>15, <1>16 DEF EventShape

LEMMA EventStep ==
    ASSUME PInv, EventShape, [Next]_vars
    PROVE  EventShape'
<1>1. CASE \/ \E f \in Pictures \cup {Corrupt} : TakeFrame(f)
           \/ Decode \/ DecodeFails \/ Draw \/ DrawFails
           \/ Save \/ SaveFails \/ Finish \/ Count
  BY <1>1, QuietSteps
<1>2. CASE Prepare
  BY <1>2, PrepareKeepsEvents
<1>3. CASE PrepareFails
  BY <1>3, PrepareFailsKeepsEvents
<1>4. CASE Analyse
  BY <1>4, AnalyseKeepsEvents
<1>5. CASE Stopped \/ UNCHANGED vars
  BY <1>5 DEF Stopped, vars, previous, EventShape
<1>6. QED
  BY <1>1, <1>2, <1>3, <1>4, <1>5 DEF Next

\* The memory of motion detection is the history, always.
THEOREM MemoryIsHistory == Spec => []EventShape
BY EventInit, EventStep, PipelineInvariance, PTL DEF Spec

\* The counters that /metrics gives out for motion are exact, for every grid,
\* threshold and picture size and any order of failures.
THEOREM EventsCounted == Spec => []EventsAreRises
<1>1. ASSUME EventShape PROVE EventsAreRises
  <2>1. Compared(seen) = { i \in DOMAIN seen : seen[i] # None }
    BY DEF Compared
  <2>2. MovedIn(seen) = { i \in Compared(seen) : MovedAt(i) }
    BY DEF MovedIn, MovesAt, MovedAt
  <2>3. Rises(seen) = { i \in MovedIn(seen) :
           \/ { j \in Compared(seen) : j < i } = {}
           \/ Max({ j \in Compared(seen) : j < i }) \notin MovedIn(seen) }
    BY DEF Rises, Earlier
  <2>4. QED
    BY <1>1, <2>1, <2>2, <2>3 DEF EventShape, EventsAreRises
<1>2. QED
  BY <1>1, MemoryIsHistory, PTL
-----------------------------------------------------------------------------
(* The snapshots                                                           *)

\* The pictures a motion event begins with, those not compared for want of
\* memory, and the files that hold a picture.
Firsts(s) == { i \in DOMAIN s : MovesAt(s, i) /\ ~MovesAt(s, i - 1) }
Missing(s) == { i \in DOMAIN s : s[i] = None }
WholeFiles == { e \in DOMAIN files : files[e] # None }

\* An event that is still to be saved.
Pending == IF event /\ config.save /\ pc \in {"draw", "save"} THEN 1 ELSE 0

\* Every file but those that failed holds the first frame of an event, the
\* event under way has no file yet, and the books balance.
SnapshotShape ==
    /\ IsFiniteSet(WholeFiles) /\ Cardinality(WholeFiles) = counters["snapshots"]
    /\ \A e \in WholeFiles : \E i \in Firsts(seen) : files[e] = seen[i]
    /\ pc \in {"idle", "decode", "prepare", "analyse"} => ~event
    /\ event => Len(seen) \in Firsts(seen) /\ frame = seen[Len(seen)]
    /\ event /\ pc \in {"draw", "save"} => counters["events"] \notin DOMAIN files
    /\ config.save /\ config.display # "unsupported" =>
          counters["events"] + Cardinality(Missing(seen))
              = counters["snapshots"] + counters["errors"] + Pending

LEMMA FirstsKept ==
    ASSUME NEW S, NEW s \in Seq(S), NEW x \in S, NEW t, t = Append(s, x),
           NEW i \in Firsts(s)
    PROVE  i \in Firsts(t) /\ t[i] = s[i]
<1>1. i \in 1..Len(s) /\ i \in 0..Len(s) /\ i - 1 \in 0..Len(s)
  BY DEF Firsts
<1>2. /\ MovesAt(Append(s, x), i) <=> MovesAt(s, i)
      /\ MovesAt(Append(s, x), i - 1) <=> MovesAt(s, i - 1)
  BY <1>1, OldMovesKept
<1>3. i \in DOMAIN Append(s, x) /\ Append(s, x)[i] = s[i]
  BY <1>1, Grown
<1>4. QED
  BY <1>2, <1>3 DEF Firsts

\* If the last picture moved it is the last compared one that moved.
LEMMA LastMoves ==
    ASSUME NEW S, NEW s \in Seq(S), MovesAt(s, Len(s)), Len(s) > 0
    PROVE  LastMoved(s)
<1>1. Len(s) \in Compared(s) /\ Len(s) \in MovedIn(s)
  BY DEF MovesAt, Compared, MovedIn
<1>2. Compared(s) \in SUBSET Nat /\ Compared(s) \subseteq 1..Len(s)
  BY HistorySets
<1>3. Max(Compared(s)) = Len(s)
  BY <1>1, <1>2, MaxIs
<1>4. QED
  BY <1>1, <1>3 DEF LastMoved

\* So a picture that begins an event is a first one.
LEMMA RiseIsFirst ==
    ASSUME NEW S, NEW s \in Seq(S), NEW x \in S,
           MovesAt(Append(s, x), Len(s) + 1), ~LastMoved(s)
    PROVE  Len(s) + 1 \in Firsts(Append(s, x))
<1>1. Len(s) \in Nat /\ Len(s) + 1 \in DOMAIN Append(s, x)
  BY Grown
<1>2. MovesAt(Append(s, x), Len(s)) <=> MovesAt(s, Len(s))
  BY <1>1, OldMovesKept
<1>3. ~MovesAt(s, Len(s))
  <2>1. CASE Len(s) > 0
    BY <2>1, LastMoves
  <2>2. CASE Len(s) = 0
    BY <2>2 DEF MovesAt
  <2>3. QED
    BY <1>1, <2>1, <2>2
<1>4. Len(s) + 1 - 1 = Len(s)
  BY <1>1
<1>5. QED
  BY <1>1, <1>2, <1>3, <1>4 DEF Firsts

\* The counters of the balance.
LEMMA BalanceCounters ==
    ASSUME PInv
    PROVE  /\ {"events", "snapshots", "errors"} \subseteq Counter
           /\ \A n \in {"events", "snapshots", "errors"} : counters[n] \in Nat
BY DEF PInv, ServiceShape, Counter

LEMMA MissingFinite ==
    ASSUME PInv
    PROVE  IsFiniteSet(Missing(seen)) /\ Cardinality(Missing(seen)) \in Nat
<1>1. seen \in Seq(Pictures \cup {None})
  BY DEF PInv, ServiceShape
<1>2. IsFiniteSet(Missing(seen))
  BY <1>1, HistorySets DEF Missing
<1>3. QED
  BY <1>2, FS_CardinalityType

LEMMA SnapshotInit == ASSUME Init PROVE SnapshotShape
<1>1. /\ seen = <<>> /\ event = FALSE /\ DOMAIN files = {}
      /\ \A n \in {"events", "snapshots", "errors"} : counters[n] = 0
  BY DEF Init, Counter
<1>2. WholeFiles = {} /\ Missing(seen) = {}
  BY <1>1 DEF WholeFiles, Missing
<1>3. Pending = 0
  BY <1>1 DEF Pending
<1>4. /\ IsFiniteSet(WholeFiles) /\ Cardinality(WholeFiles) = 0
      /\ Cardinality(Missing(seen)) = 0
  BY <1>2, FS_EmptySet
<1>5. \A e \in WholeFiles : \E i \in Firsts(seen) : files[e] = seen[i]
  BY <1>2
<1>6. QED
  BY <1>1, <1>3, <1>4, <1>5 DEF SnapshotShape

\* A step of a frame that is not analysed, saved or missing.
LEMMA BooksStay ==
    ASSUME SnapshotShape, UNCHANGED <<config, files, seen>>,
           \A n \in {"events", "snapshots", "errors"} : counters'[n] = counters[n],
           event' => event /\ frame' = frame,
           pc' \in {"idle", "decode", "prepare", "analyse"} => ~event',
           event' /\ pc' \in {"draw", "save"} => pc \in {"draw", "save"},
           config.display # "unsupported" => Pending' = Pending
    PROVE  SnapshotShape'
BY DEF SnapshotShape, WholeFiles

LEMMA QuietSnapshots ==
    ASSUME PInv, SnapshotShape,
           \/ \E f \in Pictures \cup {Corrupt} : TakeFrame(f)
           \/ Decode \/ DecodeFails \/ Prepare \/ Draw \/ DrawFails
    PROVE  SnapshotShape'
<1>1. /\ event \in BOOLEAN
      /\ pc \in {"idle", "decode", "prepare", "analyse"} => ~event
  BY DEF PInv, LocalsShape, SnapshotShape
<1>2. UNCHANGED <<config, files, seen, counters, event>>
  BY DEF TakeFrame, Decode, DecodeFails, Prepare, Draw, DrawFails, locals
<1>3. event => frame' = frame
  BY <1>1 DEF TakeFrame, Decode, DecodeFails, Prepare, Draw, DrawFails, locals
<1>4. /\ pc' \in {"idle", "decode", "prepare", "analyse"} => ~event
      /\ event /\ pc' \in {"draw", "save"} => pc \in {"draw", "save"}
  BY <1>1 DEF TakeFrame, Decode, DecodeFails, Prepare, Draw, DrawFails
<1>5. config.display # "unsupported" => Pending' = Pending
  BY <1>1, <1>2 DEF Pending, TakeFrame, Decode, DecodeFails, Prepare, Draw, DrawFails
<1>6. QED
  BY <1>2, <1>3, <1>4, <1>5, BooksStay

LEMMA ReturnSnapshots ==
    ASSUME PInv, SnapshotShape, Finish \/ Count
    PROVE  SnapshotShape'
<1>1. /\ pc \in {"finish", "count"} /\ pc' \in {"count", "idle"}
      /\ UNCHANGED <<config, files, seen>>
      /\ pc' = "idle" => event' = FALSE
      /\ event' => event /\ frame' = frame
  BY DEF Finish, Count
<1>2. \E names : Bump(names) /\ names \cap {"events", "snapshots", "errors"} = {}
  <2>1. CASE Finish
    BY <2>1 DEF Finish, LcdOutcome
  <2>2. CASE Count
    BY <2>2 DEF Count
  <2>3. QED
    BY <2>1, <2>2
<1>3. \A n \in {"events", "snapshots", "errors"} : counters'[n] = counters[n]
  BY <1>2, OthersStay, BalanceCounters
<1>4. Pending' = Pending
  BY <1>1 DEF Pending
<1>5. QED
  BY <1>1, <1>3, <1>4, BooksStay

\* A picture without a buffer is an error that is no event.
LEMMA PrepareFailsBalances ==
    ASSUME PInv, SnapshotShape, PrepareFails
    PROVE  SnapshotShape'
<1>1. /\ pc = "prepare" /\ pc' = "finish" /\ Bump({"errors"}) /\ seen' = Append(seen, None)
      /\ UNCHANGED <<config, event, files>>
  BY DEF PrepareFails, locals
<1>2. ~event /\ ~event'
  BY <1>1 DEF SnapshotShape
<1>3. seen \in Seq(Pictures \cup {None}) /\ None \in Pictures \cup {None} /\ Len(seen) \in Nat
  BY DEF PInv, ServiceShape
<1>4. Missing(seen') = Missing(seen) \cup {Len(seen) + 1} /\ Len(seen) + 1 \notin Missing(seen)
  BY <1>1, <1>3, NotComparedGrows DEF Missing
<1>5. Cardinality(Missing(seen')) = Cardinality(Missing(seen)) + 1
  BY <1>4, MissingFinite, FS_AddElement
<1>6. /\ counters'["errors"] = counters["errors"] + 1
      /\ counters'["events"] = counters["events"]
      /\ counters'["snapshots"] = counters["snapshots"]
  <2>1. counters'["errors"] = counters["errors"] + 1
    BY <1>1, Bumped, BalanceCounters DEF PInv, ServiceShape
  <2>2. QED
    BY <1>1, <2>1, OthersStay, BalanceCounters
<1>7. \A i \in Firsts(seen) : i \in Firsts(seen') /\ seen'[i] = seen[i]
  <2>1. ASSUME NEW i \in Firsts(seen)
        PROVE  i \in Firsts(seen') /\ seen'[i] = seen[i]
    BY <1>1, <1>3, FirstsKept
  <2>2. QED
    BY <2>1
<1>8. Pending = 0 /\ Pending' = 0
  BY <1>2 DEF Pending
<1>9. WholeFiles' = WholeFiles
  BY <1>1 DEF WholeFiles
<1>10. \A e \in WholeFiles' : \E i \in Firsts(seen') : files'[e] = seen'[i]
  <2>1. ASSUME NEW e \in WholeFiles PROVE \E i \in Firsts(seen') : files'[e] = seen'[i]
    <3>1. PICK i \in Firsts(seen) : files[e] = seen[i]
      BY DEF SnapshotShape
    <3>2. i \in Firsts(seen') /\ seen'[i] = seen[i] /\ files' = files
      BY <1>1, <1>7
    <3>3. QED
      BY <3>1, <3>2
  <2>2. QED
    BY <1>9, <2>1
<1>11. config.save /\ config.display # "unsupported" =>
          counters'["events"] + Cardinality(Missing(seen'))
              = counters'["snapshots"] + counters'["errors"] + Pending'
  BY <1>5, <1>6, <1>8, BalanceCounters, MissingFinite DEF SnapshotShape
<1>12. IsFiniteSet(WholeFiles') /\ Cardinality(WholeFiles') = counters'["snapshots"]
  BY <1>6, <1>9 DEF SnapshotShape
<1>13. QED
  BY <1>1, <1>2, <1>10, <1>11, <1>12 DEF SnapshotShape

\* A new event waits for its file, and begins with this frame.
LEMMA AnalyseBalances ==
    ASSUME PInv, EventShape, SnapshotShape, Analyse
    PROVE  SnapshotShape'
<1> DEFINE names == {"processed"} \cup (IF Moved # {} THEN {"active"} ELSE {})
                        \cup (IF NewEvent THEN {"events"} ELSE {})
<1>1. /\ pc = "analyse" /\ pc' = "draw" /\ Bump(names) /\ event' = NewEvent
      /\ seen' = Append(seen, frame) /\ UNCHANGED <<config, frame, files>>
  BY DEF Analyse
<1>2. frame \in Pictures /\ frame # None /\ ~event
  BY <1>1, PictureShape DEF PInv, LocalsShape, SnapshotShape
<1>3. seen \in Seq(Pictures \cup {None}) /\ Len(seen) \in Nat
  BY DEF PInv, ServiceShape
<1>4. /\ Len(seen') = Len(seen) + 1 /\ seen'[Len(seen')] = frame
  BY <1>1, <1>2, <1>3, Grown
<1>5. Missing(seen') = Missing(seen)
  BY <1>1, <1>2, <1>3, ComparedGrows DEF Missing
<1>6. NewEvent => Len(seen') \in Firsts(seen')
  <2>1. NewEvent => MovesAt(Append(seen, frame), Len(seen) + 1) /\ ~LastMoved(seen)
    BY <1>1, MovedIsHistory DEF NewEvent, EventShape
  <2>2. QED
    BY <1>1, <1>2, <1>3, <1>4, <2>1, RiseIsFirst
<1>7. \A i \in Firsts(seen) : i \in Firsts(seen') /\ seen'[i] = seen[i]
  <2>1. /\ frame \in Pictures \cup {None} /\ seen \in Seq(Pictures \cup {None})
        /\ seen' = Append(seen, frame)
    BY <1>1, <1>2, <1>3
  <2>2. ASSUME NEW i \in Firsts(seen)
        PROVE  i \in Firsts(seen') /\ seen'[i] = seen[i]
    BY <2>1, FirstsKept
  <2>3. QED
    BY <2>2
<1>8. /\ counters'["events"] = counters["events"] + IF NewEvent THEN 1 ELSE 0
      /\ counters'["errors"] = counters["errors"]
      /\ counters'["snapshots"] = counters["snapshots"]
  <2>1. /\ "events" \in names <=> NewEvent
        /\ "errors" \notin names /\ "snapshots" \notin names
    OBVIOUS
  <2> HIDE DEF names
  <2>2. \A n \in Counter : counters'[n] = counters[n] + IF n \in names THEN 1 ELSE 0
    BY <1>1, Bumped DEF PInv, ServiceShape
  <2>3. QED
    BY <2>1, <2>2, BalanceCounters
<1>9. NewEvent => counters'["events"] \notin DOMAIN files
  <2>1. DOMAIN files \subseteq 1..counters["events"] /\ counters["events"] \in Nat
    BY BalanceCounters DEF PInv, ServiceShape
  <2>2. QED
    BY <1>8, <2>1
<1>10. WholeFiles' = WholeFiles
  BY <1>1 DEF WholeFiles
<1>11. \A e \in WholeFiles' : \E i \in Firsts(seen') : files'[e] = seen'[i]
  <2>1. ASSUME NEW e \in WholeFiles PROVE \E i \in Firsts(seen') : files'[e] = seen'[i]
    <3>1. PICK i \in Firsts(seen) : files[e] = seen[i]
      BY DEF SnapshotShape
    <3>2. i \in Firsts(seen') /\ seen'[i] = seen[i] /\ files' = files
      BY <1>1, <1>7
    <3>3. QED
      BY <3>1, <3>2
  <2>2. QED
    BY <1>10, <2>1
<1>12. config.save /\ config.display # "unsupported" =>
          counters'["events"] + Cardinality(Missing(seen'))
              = counters'["snapshots"] + counters'["errors"] + Pending'
  <2>1. Pending = 0 /\ config.save => Pending' = IF NewEvent THEN 1 ELSE 0
    BY <1>1 DEF Pending
  <2>2. Pending = 0
    BY <1>2 DEF Pending
  <2>3. QED
    BY <1>5, <1>8, <2>1, <2>2, BalanceCounters, MissingFinite DEF SnapshotShape
<1>13. /\ event' => Len(seen') \in Firsts(seen') /\ frame' = seen'[Len(seen')]
       /\ event' /\ pc' \in {"draw", "save"} => counters'["events"] \notin DOMAIN files'
       /\ pc' \in {"idle", "decode", "prepare", "analyse"} => ~event'
  BY <1>1, <1>4, <1>6, <1>9
<1>14. IsFiniteSet(WholeFiles') /\ Cardinality(WholeFiles') = counters'["snapshots"]
  BY <1>8, <1>10 DEF SnapshotShape
<1>15. QED
  BY <1>1, <1>11, <1>12, <1>13, <1>14 DEF SnapshotShape

\* The file is a new one.
LEMMA FileIsNew ==
    ASSUME PInv, SnapshotShape, pc = "save", NEW content, FileGets(content)
    PROVE  /\ WholeFiles' = WholeFiles
                 \cup (IF content # None THEN {counters["events"]} ELSE {})
           /\ counters["events"] \notin WholeFiles
           /\ \A e \in WholeFiles : files'[e] = files[e]
           /\ files'[counters["events"]] = content
<1>1. event /\ counters["events"] \notin DOMAIN files
  BY DEF PInv, LocalsShape, SnapshotShape
<1>2. /\ DOMAIN files' = DOMAIN files \cup {counters["events"]}
      /\ \A e \in DOMAIN files' :
            files'[e] = IF e = counters["events"] THEN content ELSE files[e]
  BY DEF FileGets
<1>3. \A e \in DOMAIN files : files'[e] = files[e]
  BY <1>1, <1>2
<1>4. files'[counters["events"]] = content
  BY <1>2
<1>5. WholeFiles' = WholeFiles
          \cup (IF content # None THEN {counters["events"]} ELSE {})
  BY <1>1, <1>2, <1>3, <1>4 DEF WholeFiles
<1>6. QED
  BY <1>1, <1>3, <1>4, <1>5 DEF WholeFiles

LEMMA SaveBalances ==
    ASSUME PInv, SnapshotShape, Save
    PROVE  SnapshotShape'
<1>1. /\ pc = "save" /\ pc' = "finish" /\ FileGets(frame) /\ Bump({"snapshots"})
      /\ UNCHANGED <<config, frame, event, seen>>
  BY DEF Save, locals
<1>2. event /\ frame # None
  BY <1>1, PictureShape DEF PInv, LocalsShape
<1>3. /\ WholeFiles' = WholeFiles \cup {counters["events"]}
      /\ counters["events"] \notin WholeFiles
      /\ \A e \in WholeFiles : files'[e] = files[e]
      /\ files'[counters["events"]] = frame
  BY <1>1, <1>2, FileIsNew
<1>4. /\ counters'["snapshots"] = counters["snapshots"] + 1
      /\ counters'["events"] = counters["events"]
      /\ counters'["errors"] = counters["errors"]
  <2>1. counters'["snapshots"] = counters["snapshots"] + 1
    BY <1>1, Bumped, BalanceCounters DEF PInv, ServiceShape
  <2>2. QED
    BY <1>1, <2>1, OthersStay, BalanceCounters
<1>5. IsFiniteSet(WholeFiles') /\ Cardinality(WholeFiles') = counters'["snapshots"]
  <2>1. IsFiniteSet(WholeFiles) /\ Cardinality(WholeFiles) = counters["snapshots"]
    BY DEF SnapshotShape
  <2>2. /\ IsFiniteSet(WholeFiles \cup {counters["events"]})
        /\ Cardinality(WholeFiles \cup {counters["events"]}) = Cardinality(WholeFiles) + 1
    BY <1>3, <2>1, FS_AddElement
  <2>3. QED
    BY <1>3, <1>4, <2>1, <2>2
<1>6. \A e \in WholeFiles' : \E i \in Firsts(seen') : files'[e] = seen'[i]
  <2>1. frame = seen[Len(seen)] /\ Len(seen) \in Firsts(seen)
    BY <1>2 DEF SnapshotShape
  <2>2. QED
    BY <1>1, <1>3, <2>1 DEF SnapshotShape
<1>7. config.save /\ config.display # "unsupported" =>
          counters'["events"] + Cardinality(Missing(seen'))
              = counters'["snapshots"] + counters'["errors"] + Pending'
  <2>1. (config.save => Pending = 1) /\ Pending' = 0
    BY <1>1, <1>2 DEF Pending
  <2>2. QED
    BY <1>1, <1>4, <2>1, BalanceCounters, MissingFinite DEF SnapshotShape
<1>8. QED
  BY <1>1, <1>5, <1>6, <1>7 DEF SnapshotShape

LEMMA SaveFailsBalances ==
    ASSUME PInv, SnapshotShape, SaveFails
    PROVE  SnapshotShape'
<1>1. /\ pc = "save" /\ pc' = "finish" /\ Bump({"errors"})
      /\ UNCHANGED files \/ FileGets(None)
      /\ UNCHANGED <<config, frame, event, seen>>
  BY DEF SaveFails, locals
<1>2. event
  BY <1>1 DEF PInv, LocalsShape
<1>3. WholeFiles' = WholeFiles /\ \A e \in WholeFiles : files'[e] = files[e]
  <2>1. CASE UNCHANGED files
    BY <2>1 DEF WholeFiles
  <2>2. CASE FileGets(None)
    BY <1>1, <2>2, FileIsNew
  <2>3. QED
    BY <1>1, <2>1, <2>2
<1>4. /\ counters'["errors"] = counters["errors"] + 1
      /\ counters'["events"] = counters["events"]
      /\ counters'["snapshots"] = counters["snapshots"]
  <2>1. counters'["errors"] = counters["errors"] + 1
    BY <1>1, Bumped, BalanceCounters DEF PInv, ServiceShape
  <2>2. QED
    BY <1>1, <2>1, OthersStay, BalanceCounters
<1>5. config.save /\ config.display # "unsupported" =>
          counters'["events"] + Cardinality(Missing(seen'))
              = counters'["snapshots"] + counters'["errors"] + Pending'
  <2>1. (config.save => Pending = 1) /\ Pending' = 0
    BY <1>1, <1>2 DEF Pending
  <2>2. QED
    BY <1>1, <1>4, <2>1, BalanceCounters, MissingFinite DEF SnapshotShape
<1>6. QED
  BY <1>1, <1>3, <1>4, <1>5 DEF SnapshotShape

LEMMA SnapshotStep ==
    ASSUME PInv, EventShape, SnapshotShape, [Next]_vars
    PROVE  SnapshotShape'
<1>1. CASE \/ \E f \in Pictures \cup {Corrupt} : TakeFrame(f)
           \/ Decode \/ DecodeFails \/ Prepare \/ Draw \/ DrawFails
  BY <1>1, QuietSnapshots
<1>2. CASE Finish \/ Count
  BY <1>2, ReturnSnapshots
<1>3. CASE PrepareFails
  BY <1>3, PrepareFailsBalances
<1>4. CASE Analyse
  BY <1>4, AnalyseBalances
<1>5. CASE Save
  BY <1>5, SaveBalances
<1>6. CASE SaveFails
  BY <1>6, SaveFailsBalances
<1>7. CASE Stopped \/ UNCHANGED vars
  <2>1. UNCHANGED <<config, pc, frame, event, counters, files, seen>>
    BY <1>7 DEF Stopped, vars, locals
  <2>2. Pending' = Pending
    BY <2>1 DEF Pending
  <2>3. pc \in {"idle", "decode", "prepare", "analyse"} => ~event
    BY DEF SnapshotShape
  <2>4. QED
    BY <2>1, <2>2, <2>3, BooksStay
<1>8. QED
  BY <1>1, <1>2, <1>3, <1>4, <1>5, <1>6, <1>7 DEF Next

\* The snapshots and the errors account for the events at every step.
THEOREM SnapshotsInvariance == Spec => []SnapshotShape
BY SnapshotInit, SnapshotStep, PipelineInvariance, MemoryIsHistory, PTL DEF Spec

\* No motion event is lost without being counted, and every snapshot holds the
\* frame an event began with, whichever allocations and files fail.
THEOREM EventsAccountedFor == Spec => []EveryEventSavedOrReported
<1>1. ASSUME PInv, SnapshotShape PROVE EveryEventSavedOrReported
  <2>1. /\ WholeFiles = { e \in DOMAIN files : files[e] # None }
        /\ Missing(seen) = { i \in DOMAIN seen : seen[i] = None }
    BY DEF WholeFiles, Missing
  <2>2. Firsts(seen) = { i \in DOMAIN seen : MovedAt(i) /\ ~MovedAt(i - 1) }
    BY DEF Firsts, MovesAt, MovedAt
  <2>3. pc = "idle" => Pending = 0
    BY DEF Pending
  <2>4. pc = "idle" /\ config.save /\ config.display # "unsupported" =>
           counters["events"] = counters["snapshots"]
               + counters["errors"] - Cardinality(Missing(seen))
    BY <1>1, <2>3, BalanceCounters, MissingFinite DEF SnapshotShape
  <2>5. QED
    BY <1>1, <2>1, <2>2, <2>4 DEF SnapshotShape, EveryEventSavedOrReported
<1>2. QED
  BY <1>1, PipelineInvariance, SnapshotsInvariance, PTL
-----------------------------------------------------------------------------
(* The box and the mask                                                    *)

\* Less is less by one factor.
LEMMA FactorLess ==
    ASSUME NEW a \in Nat, NEW b \in Nat, NEW c \in Nat, a * c < b * c
    PROVE  a < b
<1>1. CASE b <= a
  <2>1. b * c <= a * c
    BY <1>1, ProductMonotone
  <2>2. a * c \in Nat /\ b * c \in Nat
    BY ProductInNat
  <2>3. QED
    BY <2>1, <2>2
<1>2. QED
  BY <1>1

\* What a quotient is.
LEMMA DivisionIs ==
    ASSUME NEW a \in Nat, NEW d \in Nat \ {0}
    PROVE  /\ a \div d \in Nat /\ a % d \in Nat /\ a % d < d
           /\ a = (a \div d) * d + (a % d)
<1>1. a \div d \in Nat /\ a % d \in Nat /\ a % d < d
  OBVIOUS
<1>2. a = (a \div d) * d + (a % d)
  OBVIOUS
<1>3. QED
  BY <1>1, <1>2

\* And that there is one.
LEMMA QuotientUnique ==
    ASSUME NEW q \in Nat, NEW d \in Nat \ {0}, NEW r \in 0..d-1, NEW a \in Nat, a = q * d + r
    PROVE  a \div d = q /\ a % d = r
<1> DEFINE p == a \div d
           s == a % d
<1>1. p \in Nat /\ s \in Nat /\ s < d /\ a = p * d + s /\ d \in Nat
  BY DivisionIs
<1> HIDE DEF p, s
<1>2. q * d \in Nat /\ p * d \in Nat /\ (q + 1) * d = q * d + d /\ (p + 1) * d = p * d + d
  BY <1>1, ProductInNat, OneMore
<1>3. q < p + 1
  <2>1. q * d < (p + 1) * d
    BY <1>1, <1>2
  <2>2. QED
    BY <1>1, <2>1, FactorLess
<1>4. p < q + 1
  <2>1. p * d < (q + 1) * d
    BY <1>1, <1>2
  <2>2. QED
    BY <1>1, <2>1, FactorLess
<1>5. p = q
  BY <1>1, <1>3, <1>4
<1>6. s = r
  BY <1>1, <1>2, <1>5
<1>7. QED
  BY <1>5, <1>6 DEF p, s

\* A pixel's index says where it is.
LEMMA PixelPlace ==
    ASSUME NEW w \in Nat \ {0}, NEW x \in 0..w-1, NEW y \in Nat
    PROVE  (y * w + x) % w = x /\ (y * w + x) \div w = y
<1>1. y * w + x \in Nat
  BY ProductInNat
<1>2. QED
  BY <1>1, QuotientUnique

\* The edges divide a line from its first pixel to its last, in order.
LEMMA EdgesInOrder ==
    ASSUME NEW n \in Nat \ {0}, NEW len \in Nat, NEW j \in Nat, NEW k \in Nat, j <= k
    PROVE  Edge(j, n, len) \in Nat /\ Edge(k, n, len) \in Nat
           /\ Edge(j, n, len) <= Edge(k, n, len)
<1> DEFINE p == (j * len) \div n
           q == (k * len) \div n
<1>1. j * len \in Nat /\ k * len \in Nat /\ j * len <= k * len
  BY ProductInNat, ProductMonotone
<1>2. /\ p \in Nat /\ q \in Nat /\ p * n <= j * len /\ k * len < q * n + n
  <2>1. /\ p \in Nat /\ (j * len) % n \in Nat /\ j * len = p * n + ((j * len) % n)
        /\ q \in Nat /\ (k * len) % n < n /\ (k * len) % n \in Nat
        /\ k * len = q * n + ((k * len) % n)
    BY <1>1, DivisionIs
  <2> HIDE DEF p, q
  <2>2. p * n \in Nat /\ q * n \in Nat
    BY <2>1, ProductInNat
  <2>3. QED
    BY <1>1, <2>1, <2>2
<1> HIDE DEF p, q
<1>3. (q + 1) * n = q * n + n /\ p * n \in Nat /\ q * n \in Nat
  BY <1>2, OneMore, ProductInNat
<1>4. p * n < (q + 1) * n
  BY <1>1, <1>2, <1>3
<1>5. p < q + 1
  BY <1>2, <1>4, FactorLess
<1>6. QED
  BY <1>2, <1>5 DEF Edge, p, q

LEMMA EdgeEnds ==
    ASSUME NEW n \in Nat \ {0}, NEW len \in Nat
    PROVE  Edge(0, n, len) = 0 /\ Edge(n, n, len) = len
<1>1. n * len = len * n + 0 /\ len * n \in Nat /\ 0 * len = 0 * n + 0 /\ 0 * len \in Nat
  BY ProductInNat
<1>2. (n * len) \div n = len
  BY <1>1, QuotientUnique
<1>3. (0 * len) \div n = 0
  BY <1>1, QuotientUnique
<1>4. QED
  BY <1>2, <1>3 DEF Edge

\* With a pixel or more for each block no block is empty.
LEMMA EdgesApart ==
    ASSUME NEW n \in Nat \ {0}, NEW len \in Nat, n <= len, NEW k \in Nat
    PROVE  Edge(k, n, len) < Edge(k + 1, n, len)
<1> DEFINE p == (k * len) \div n
           q == ((k + 1) * len) \div n
<1>1. /\ k * len \in Nat /\ (k + 1) * len = k * len + len
      /\ (k + 1) * len \in Nat
  BY ProductInNat, OneMore
<1>2. /\ p \in Nat /\ q \in Nat /\ p * n <= k * len /\ (k + 1) * len < q * n + n
  <2>1. /\ p \in Nat /\ (k * len) % n \in Nat /\ k * len = p * n + ((k * len) % n)
        /\ q \in Nat /\ ((k + 1) * len) % n < n /\ ((k + 1) * len) % n \in Nat
        /\ (k + 1) * len = q * n + (((k + 1) * len) % n)
    BY <1>1, DivisionIs
  <2> HIDE DEF p, q
  <2>2. p * n \in Nat /\ q * n \in Nat
    BY <2>1, ProductInNat
  <2>3. QED
    BY <1>1, <2>1, <2>2
<1> HIDE DEF p, q
<1>3. p * n \in Nat /\ q * n \in Nat
  BY <1>2, ProductInNat
<1>4. p * n < q * n
  BY <1>1, <1>2, <1>3
<1>5. p < q
  BY <1>2, <1>4, FactorLess
<1>6. QED
  BY <1>5 DEF Edge, p, q
\* The pixels of a block in a line of any length.
LEMMA TileShape ==
    ASSUME NEW n \in Nat \ {0}, NEW len \in Nat, NEW k \in 0..n-1
    PROVE  /\ Edge(k, n, len) \in Nat /\ Edge(k + 1, n, len) \in Nat
           /\ Edge(k, n, len) <= Edge(k + 1, n, len) /\ Edge(k + 1, n, len) <= len
           /\ \A x : x \in Tile(k, n, len) <=>
                  x \in Nat /\ Edge(k, n, len) <= x /\ x < Edge(k + 1, n, len)
<1>1. k \in Nat /\ k + 1 \in Nat /\ k <= k + 1 /\ k + 1 <= n /\ n \in Nat
  OBVIOUS
<1>2. /\ Edge(k, n, len) \in Nat /\ Edge(k + 1, n, len) \in Nat
      /\ Edge(k, n, len) <= Edge(k + 1, n, len)
  BY <1>1, EdgesInOrder
<1>3. Edge(k + 1, n, len) <= len
  BY <1>1, EdgesInOrder, EdgeEnds
<1>4. \A x : x \in Tile(k, n, len) <=>
         x \in Nat /\ Edge(k, n, len) <= x /\ x < Edge(k + 1, n, len)
  BY <1>2, <1>3 DEF Tile
<1>5. QED
  BY <1>2, <1>3, <1>4

\* Every pixel of a set of blocks of a line lies between the edge of the first
\* and that of the last, and these lie in the line.
LEMMA TilesInSpan ==
    ASSUME NEW n \in Nat \ {0}, NEW len \in Nat, NEW K \in SUBSET (0..n-1), K # {}
    PROVE  /\ Min(K) \in K /\ Max(K) \in K
           /\ Edge(Min(K), n, len) \in Nat /\ Edge(Max(K) + 1, n, len) \in Nat
           /\ Edge(Min(K), n, len) <= len /\ Edge(Max(K) + 1, n, len) <= len
           /\ Edge(Min(K), n, len) <= Edge(Max(K) + 1, n, len)
           /\ \A k \in K : \A x \in Tile(k, n, len) :
                  /\ x \in Nat
                  /\ Edge(Min(K), n, len) <= x /\ x < Edge(Max(K) + 1, n, len)
<1>1. K \in SUBSET Nat /\ n \in Nat /\ \A k \in K : k <= n
  OBVIOUS
<1>2. /\ Min(K) \in K /\ \A k \in K : Min(K) <= k
      /\ Max(K) \in K /\ \A k \in K : k <= Max(K)
  BY <1>1, MinInside, MaxInside
<1>3. \A k \in K : k \in 0..n-1 /\ k \in Nat /\ k + 1 \in Nat
  OBVIOUS
<1>4. ASSUME NEW k \in K
      PROVE  /\ Edge(Min(K), n, len) \in Nat /\ Edge(k, n, len) \in Nat
             /\ Edge(Min(K), n, len) <= Edge(k, n, len)
  BY <1>2, <1>3, EdgesInOrder
<1>5. ASSUME NEW k \in K
      PROVE  /\ Edge(k + 1, n, len) \in Nat /\ Edge(Max(K) + 1, n, len) \in Nat
             /\ Edge(k + 1, n, len) <= Edge(Max(K) + 1, n, len)
  <2>1. k \in Nat /\ Max(K) \in Nat /\ k <= Max(K)
    BY <1>2, <1>3
  <2>2. k + 1 \in Nat /\ Max(K) + 1 \in Nat /\ k + 1 <= Max(K) + 1
    BY <2>1
  <2>3. QED
    BY <2>2, EdgesInOrder
<1>6. ASSUME NEW k \in K
      PROVE  /\ Edge(k, n, len) <= Edge(k + 1, n, len) /\ Edge(k + 1, n, len) <= len
             /\ \A x \in Tile(k, n, len) :
                   x \in Nat /\ Edge(k, n, len) <= x /\ x < Edge(k + 1, n, len)
  BY <1>3, TileShape
<1>7. ASSUME NEW k \in K, NEW x \in Tile(k, n, len)
      PROVE  /\ x \in Nat
             /\ Edge(Min(K), n, len) <= x /\ x < Edge(Max(K) + 1, n, len)
  BY <1>4, <1>5, <1>6
<1>8. Edge(Max(K) + 1, n, len) <= len
  BY <1>2, <1>6
<1>9. /\ Edge(Min(K), n, len) \in Nat /\ Edge(Max(K) + 1, n, len) \in Nat
      /\ Edge(Min(K), n, len) <= Edge(Max(K) + 1, n, len)
  <2>1. /\ Edge(Min(K), n, len) \in Nat /\ Edge(Max(K), n, len) \in Nat
        /\ Edge(Min(K), n, len) <= Edge(Max(K), n, len)
    BY <1>2, <1>4
  <2>2. Edge(Max(K) + 1, n, len) \in Nat
    BY <1>2, <1>5
  <2>3. Edge(Max(K), n, len) <= Edge(Max(K) + 1, n, len)
    BY <1>2, <1>6
  <2>4. QED
    BY <2>1, <2>2, <2>3
<1>10. Edge(Min(K), n, len) <= len
  BY <1>8, <1>9
<1>11. QED
  BY <1>2, <1>7, <1>8, <1>9, <1>10

\* A set of blocks of a line, none of them empty, spans from the edge of the
\* first to that of the last.
LEMMA SpanOfTiles ==
    ASSUME NEW n \in Nat \ {0}, NEW len \in Nat, n <= len,
           NEW K \in SUBSET (0..n-1), K # {},
           NEW xs, xs = UNION { Tile(k, n, len) : k \in K }
    PROVE  /\ Min(xs) = Edge(Min(K), n, len)
           /\ Max(xs) = Edge(Max(K) + 1, n, len) - 1
<1>1. K \in SUBSET Nat /\ n \in Nat /\ \A k \in K : k <= n
  OBVIOUS
<1>2. /\ Min(K) \in K /\ \A k \in K : Min(K) <= k
      /\ Max(K) \in K /\ \A k \in K : k <= Max(K)
  BY <1>1, MinInside, MaxInside
<1> DEFINE lo == Edge(Min(K), n, len)
           hi == Edge(Max(K) + 1, n, len) - 1
<1>3. /\ \A k \in K : k \in 0..n-1 /\ k \in Nat /\ k + 1 \in Nat
      /\ \A k \in K : Edge(k, n, len) < Edge(k + 1, n, len)
  BY EdgesApart
<1>4. xs \in SUBSET Nat
  BY TileShape
<1>5. lo \in xs /\ hi \in xs
  <2>1. lo \in Tile(Min(K), n, len)
    <3>1. /\ Edge(Min(K), n, len) \in Nat
          /\ Edge(Min(K), n, len) < Edge(Min(K) + 1, n, len)
          /\ \A x : x \in Tile(Min(K), n, len) <=>
                x \in Nat /\ Edge(Min(K), n, len) <= x /\ x < Edge(Min(K) + 1, n, len)
      BY <1>2, <1>3, TileShape
    <3>2. QED
      BY <3>1
  <2>2. hi \in Tile(Max(K), n, len)
    <3>1. /\ Edge(Max(K), n, len) \in Nat /\ Edge(Max(K) + 1, n, len) \in Nat
          /\ Edge(Max(K), n, len) < Edge(Max(K) + 1, n, len)
          /\ \A x : x \in Tile(Max(K), n, len) <=>
                x \in Nat /\ Edge(Max(K), n, len) <= x /\ x < Edge(Max(K) + 1, n, len)
      BY <1>2, <1>3, TileShape
    <3>2. QED
      BY <3>1
  <2> HIDE DEF lo, hi
  <2>3. QED
    BY <1>2, <2>1, <2>2
<1>6. ASSUME NEW x \in xs PROVE lo <= x /\ x <= hi
  <2>1. PICK k \in K : x \in Tile(k, n, len)
    OBVIOUS
  <2>2. /\ x \in Nat /\ Edge(Max(K) + 1, n, len) \in Nat
        /\ lo <= x /\ x < Edge(Max(K) + 1, n, len)
    BY <2>1, TilesInSpan
  <2>3. QED
    BY <2>2
<1>7. Min(xs) = lo
  <2> HIDE DEF lo, hi
  <2>1. QED
    BY <1>4, <1>5, <1>6, MinIs
<1>8. Max(xs) = hi
  <2> HIDE DEF lo, hi
  <2>1. QED
    BY <1>4, <1>5, <1>6, MaxIs
<1>9. QED
  BY <1>7, <1>8

\* Where a pixel of the mask is: in a column and in a line of one block.
LEMMA MaskPixel ==
    ASSUME NEW w \in Nat \ {0}, NEW h \in Nat \ {0}, NEW blocks \in SUBSET Blocks,
           NEW i
    PROVE  i \in Mask([w |-> w, h |-> h], blocks) <=>
               \E b \in blocks : \E x \in Tile(b[2], Cols, w) :
                   \E y \in Tile(b[1], Rows, h) : i = y * w + x
<1> DEFINE pic == [w |-> w, h |-> h]
<1>1. pic.w = w /\ pic.h = h
  OBVIOUS
<1> HIDE DEF pic
<1>2. i \in Mask(pic, blocks) <=>
         \E b \in blocks : \E s \in Tile(b[2], Cols, w) \X Tile(b[1], Rows, h) :
             i = s[2] * w + s[1]
  BY <1>1 DEF Mask, Index
<1>3. ASSUME NEW b \in blocks
      PROVE  (\E s \in Tile(b[2], Cols, w) \X Tile(b[1], Rows, h) : i = s[2] * w + s[1])
             <=> \E x \in Tile(b[2], Cols, w) : \E y \in Tile(b[1], Rows, h) : i = y * w + x
  <2>1. ASSUME NEW s \in Tile(b[2], Cols, w) \X Tile(b[1], Rows, h), i = s[2] * w + s[1]
        PROVE  \E x \in Tile(b[2], Cols, w) : \E y \in Tile(b[1], Rows, h) : i = y * w + x
    BY <2>1
  <2>2. ASSUME NEW x \in Tile(b[2], Cols, w), NEW y \in Tile(b[1], Rows, h), i = y * w + x
        PROVE  \E s \in Tile(b[2], Cols, w) \X Tile(b[1], Rows, h) : i = s[2] * w + s[1]
    <3>1. /\ <<x, y>> \in Tile(b[2], Cols, w) \X Tile(b[1], Rows, h)
          /\ <<x, y>>[1] = x /\ <<x, y>>[2] = y
      OBVIOUS
    <3>2. QED
      BY <2>2, <3>1
  <2>3. QED
    BY <2>1, <2>2
<1>4. QED
  BY <1>2, <1>3 DEF pic

\* The columns and the lines of the mask, if no block is empty.
LEMMA MaskSpan ==
    ASSUME NEW w \in Nat \ {0}, NEW h \in Nat \ {0}, Cols <= w, Rows <= h,
           NEW blocks \in SUBSET Blocks,
           NEW mask, mask = Mask([w |-> w, h |-> h], blocks)
    PROVE  /\ { i % w : i \in mask } =
                  UNION { Tile(c, Cols, w) : c \in { b[2] : b \in blocks } }
           /\ { i \div w : i \in mask } =
                  UNION { Tile(r, Rows, h) : r \in { b[1] : b \in blocks } }
<1>1. ASSUME NEW b \in blocks
      PROVE  b[2] \in 0..Cols-1 /\ b[1] \in 0..Rows-1
  BY DEF Blocks
<1>2. ASSUME NEW b \in blocks
      PROVE  /\ Tile(b[2], Cols, w) \subseteq 0..w-1
             /\ Tile(b[1], Rows, h) \subseteq Nat
             /\ \E x : x \in Tile(b[2], Cols, w)
             /\ \E y : y \in Tile(b[1], Rows, h)
  <2>1. /\ b[2] \in Nat /\ b[1] \in Nat /\ Cols \in Nat \ {0} /\ Rows \in Nat \ {0}
        /\ w \in Nat /\ h \in Nat
    BY <1>1, GridAssumption
  <2>2. /\ Edge(b[2], Cols, w) < Edge(b[2] + 1, Cols, w)
        /\ Edge(b[1], Rows, h) < Edge(b[1] + 1, Rows, h)
    BY <2>1, EdgesApart
  <2>3. /\ Edge(b[2], Cols, w) \in Tile(b[2], Cols, w)
        /\ Edge(b[1], Rows, h) \in Tile(b[1], Rows, h)
    <3>1. /\ Edge(b[2], Cols, w) \in Nat
          /\ \A x : x \in Tile(b[2], Cols, w) <=>
                x \in Nat /\ Edge(b[2], Cols, w) <= x /\ x < Edge(b[2] + 1, Cols, w)
      BY <1>1, <2>1, TileShape
    <3>2. /\ Edge(b[1], Rows, h) \in Nat
          /\ \A y : y \in Tile(b[1], Rows, h) <=>
                y \in Nat /\ Edge(b[1], Rows, h) <= y /\ y < Edge(b[1] + 1, Rows, h)
      BY <1>1, <2>1, TileShape
    <3>3. QED
      BY <2>2, <3>1, <3>2
  <2>4. Tile(b[2], Cols, w) \subseteq 0..w-1 /\ Tile(b[1], Rows, h) \subseteq Nat
    BY <2>1 DEF Tile
  <2>5. QED
    BY <2>3, <2>4
<1>3. ASSUME NEW b \in blocks, NEW x \in Tile(b[2], Cols, w), NEW y \in Tile(b[1], Rows, h)
      PROVE  y * w + x \in mask /\ (y * w + x) % w = x /\ (y * w + x) \div w = y
  <2>1. y * w + x \in mask
    BY MaskPixel
  <2>2. x \in 0..w-1 /\ y \in Nat
    BY <1>2
  <2>3. QED
    BY <2>1, <2>2, PixelPlace
<1>4. ASSUME NEW i \in mask
      PROVE  \E b \in blocks : i % w \in Tile(b[2], Cols, w) /\ i \div w \in Tile(b[1], Rows, h)
  <2>1. PICK b \in blocks : \E x \in Tile(b[2], Cols, w) :
                                \E y \in Tile(b[1], Rows, h) : i = y * w + x
    BY MaskPixel
  <2>2. PICK x \in Tile(b[2], Cols, w), y \in Tile(b[1], Rows, h) : i = y * w + x
    BY <2>1
  <2>3. i % w = x /\ i \div w = y
    BY <1>3, <2>2
  <2>4. QED
    BY <2>3
<1>5. { i % w : i \in mask } = UNION { Tile(c, Cols, w) : c \in { b[2] : b \in blocks } }
  <2>1. ASSUME NEW b \in blocks, NEW x \in Tile(b[2], Cols, w)
        PROVE  x \in { i % w : i \in mask }
    BY <1>2, <1>3
  <2>2. ASSUME NEW i \in mask
        PROVE  i % w \in UNION { Tile(c, Cols, w) : c \in { b[2] : b \in blocks } }
    <3>1. PICK b \in blocks : i % w \in Tile(b[2], Cols, w)
      BY <1>4
    <3>2. QED
      BY <3>1
  <2>3. { i % w : i \in mask } \subseteq UNION { Tile(c, Cols, w) : c \in { b[2] : b \in blocks } }
    BY <2>2
  <2>4. UNION { Tile(c, Cols, w) : c \in { b[2] : b \in blocks } } \subseteq { i % w : i \in mask }
    BY <2>1
  <2>5. QED
    BY <2>3, <2>4
<1>6. { i \div w : i \in mask } = UNION { Tile(r, Rows, h) : r \in { b[1] : b \in blocks } }
  <2>1. ASSUME NEW b \in blocks, NEW y \in Tile(b[1], Rows, h)
        PROVE  y \in { i \div w : i \in mask }
    BY <1>2, <1>3
  <2>2. ASSUME NEW i \in mask
        PROVE  i \div w \in UNION { Tile(r, Rows, h) : r \in { b[1] : b \in blocks } }
    <3>1. PICK b \in blocks : i \div w \in Tile(b[1], Rows, h)
      BY <1>4
    <3>2. QED
      BY <3>1
  <2>3. { i \div w : i \in mask } \subseteq UNION { Tile(r, Rows, h) : r \in { b[1] : b \in blocks } }
    BY <2>2
  <2>4. UNION { Tile(r, Rows, h) : r \in { b[1] : b \in blocks } } \subseteq { i \div w : i \in mask }
    BY <2>1
  <2>5. QED
    BY <2>3, <2>4
<1>7. QED
  BY <1>5, <1>6

\* The box that is published is the one last computed, for a picture's size.
BoxShape == motion.blocks # {} => \E pic \in Pictures : motion.w = pic.w /\ motion.h = pic.h

LEMMA BoxStep ==
    ASSUME PInv, BoxShape, [Next]_vars
    PROVE  BoxShape'
<1>1. CASE Analyse
  <2>1. motion' = [w |-> rgb.w, h |-> rgb.h, blocks |-> Moved] /\ rgb \in Pictures
    BY <1>1 DEF Analyse, PInv, LocalsShape
  <2>2. motion'.w = rgb.w /\ motion'.h = rgb.h
    BY <2>1
  <2>3. QED
    BY <2>1, <2>2 DEF BoxShape
<1>2. CASE UNCHANGED motion
  BY <1>2 DEF BoxShape
<1>3. Analyse \/ UNCHANGED motion
  BY DEF Next, vars, TakeFrame, Decode, DecodeFails, Prepare, PrepareFails, Draw,
     DrawFails, Save, SaveFails, Finish, Count, Stopped
<1>4. QED
  BY <1>1, <1>2, <1>3

LEMMA BoxInvariance == Spec => []BoxShape
<1>1. Init => BoxShape
  BY DEF Init, BoxShape
<1>2. QED
  BY <1>1, BoxStep, PipelineInvariance, PTL DEF Spec

\* The box of /metrics bounds exactly the pixels that are coloured, for every
\* grid and every picture with a pixel or more for each block.  A smaller
\* picture has empty blocks, and an active one of these colours nothing.
THEOREM BoxIsTight ==
    ASSUME \A pic \in Pictures : Cols <= pic.w /\ Rows <= pic.h
    PROVE  Spec => []BoxBoundsTheMask
<1>1. ASSUME PInv, BoxShape PROVE BoxBoundsTheMask
  <2> SUFFICES ASSUME motion.blocks # {}
               PROVE  BoxBoundsTheMask
    BY DEF BoxBoundsTheMask
  <2> DEFINE w == motion.w
             h == motion.h
             blocks == motion.blocks
             cols == { b[2] : b \in blocks }
             rows == { b[1] : b \in blocks }
             mask == Mask([w |-> w, h |-> h], blocks)
             xs == { i % w : i \in mask }
             ys == { i \div w : i \in mask }
             box == Box(w, h, blocks)
  <2>1. blocks \in SUBSET Blocks /\ blocks # {}
    BY <1>1 DEF PInv, ServiceShape
  <2>2. w \in Nat \ {0} /\ h \in Nat \ {0} /\ Cols <= w /\ Rows <= h
    BY <1>1, PipelineAssumption DEF BoxShape
  <2> HIDE DEF w, h, blocks
  <2>3. /\ cols \in SUBSET (0..Cols-1) /\ cols # {}
        /\ rows \in SUBSET (0..Rows-1) /\ rows # {}
    BY <2>1 DEF Blocks
  <2>4. /\ xs = UNION { Tile(c, Cols, w) : c \in cols }
        /\ ys = UNION { Tile(r, Rows, h) : r \in rows }
    <3>1. mask = Mask([w |-> w, h |-> h], blocks)
      OBVIOUS
    <3> HIDE DEF mask
    <3>2. QED
      BY <2>1, <2>2, <3>1, MaskSpan
  <2>5. /\ box.x = Edge(Min(cols), Cols, w) /\ box.y = Edge(Min(rows), Rows, h)
        /\ box.w = Edge(Max(cols) + 1, Cols, w) - box.x
        /\ box.h = Edge(Max(rows) + 1, Rows, h) - box.y
    BY DEF Box
  <2> HIDE DEF cols, rows, xs, ys, box
  <2>6. Min(xs) = Edge(Min(cols), Cols, w) /\ Max(xs) = Edge(Max(cols) + 1, Cols, w) - 1
    BY <2>2, <2>3, <2>4, SpanOfTiles, GridAssumption
  <2>7. Min(ys) = Edge(Min(rows), Rows, h) /\ Max(ys) = Edge(Max(rows) + 1, Rows, h) - 1
    BY <2>2, <2>3, <2>4, SpanOfTiles, GridAssumption
  <2>8. /\ Edge(Min(cols), Cols, w) \in Nat /\ Edge(Max(cols) + 1, Cols, w) \in Nat
        /\ Edge(Min(rows), Rows, h) \in Nat /\ Edge(Max(rows) + 1, Rows, h) \in Nat
    BY <2>2, <2>3, TilesInSpan, GridAssumption
  <2>9. /\ box.x = Min(xs) /\ box.x + box.w - 1 = Max(xs)
        /\ box.y = Min(ys) /\ box.y + box.h - 1 = Max(ys)
    BY <2>5, <2>6, <2>7, <2>8
  <2>10. QED
    BY <2>9 DEF BoxBoundsTheMask, w, h, blocks, xs, ys, mask, box
<1>2. QED
  BY <1>1, PipelineInvariance, BoxInvariance, PTL

\* The box lies in the picture, and what is coloured lies in the box.
MaskInsideTheBox ==
    motion.blocks # {} =>
        LET box == Box(motion.w, motion.h, motion.blocks)
        IN  /\ box.x \in 0..motion.w /\ box.w \in 0..motion.w - box.x
            /\ box.y \in 0..motion.h /\ box.h \in 0..motion.h - box.y
            /\ \A i \in Mask([w |-> motion.w, h |-> motion.h], motion.blocks) :
                  /\ i % motion.w \in box.x .. box.x + box.w - 1
                  /\ i \div motion.w \in box.y .. box.y + box.h - 1

\* For pictures of any size nothing outside the box is coloured, and the box
\* lies in the picture: the unsigned differences of v4l2_capture.c:384-387 do
\* not wrap around.
THEOREM BoxIsInside == Spec => []MaskInsideTheBox
<1>1. ASSUME PInv, BoxShape PROVE MaskInsideTheBox
  <2> SUFFICES ASSUME motion.blocks # {}
               PROVE  MaskInsideTheBox
    BY DEF MaskInsideTheBox
  <2> DEFINE w == motion.w
             h == motion.h
             blocks == motion.blocks
             cols == { b[2] : b \in blocks }
             rows == { b[1] : b \in blocks }
             x0 == Edge(Min(cols), Cols, w)
             x1 == Edge(Max(cols) + 1, Cols, w)
             y0 == Edge(Min(rows), Rows, h)
             y1 == Edge(Max(rows) + 1, Rows, h)
             box == Box(w, h, blocks)
  <2>1. blocks \in SUBSET Blocks /\ blocks # {}
    BY <1>1 DEF PInv, ServiceShape
  <2>2. w \in Nat \ {0} /\ h \in Nat \ {0}
    BY <1>1, PipelineAssumption DEF BoxShape
  <2> HIDE DEF w, h, blocks
  <2>3. /\ cols \in SUBSET (0..Cols-1) /\ cols # {}
        /\ rows \in SUBSET (0..Rows-1) /\ rows # {}
    BY <2>1 DEF Blocks
  <2>4. /\ box.x = x0 /\ box.y = y0 /\ box.w = x1 - x0 /\ box.h = y1 - y0
    BY DEF Box
  <2>5. /\ \A b \in blocks : b[2] \in cols /\ b[1] \in rows
    OBVIOUS
  <2> HIDE DEF cols, rows, box
  <2>6. /\ x0 \in Nat /\ x1 \in Nat /\ x0 <= x1 /\ x1 <= w
        /\ \A c \in cols : \A x \in Tile(c, Cols, w) : x \in Nat /\ x0 <= x /\ x < x1
    BY <2>2, <2>3, TilesInSpan, GridAssumption
  <2>7. /\ y0 \in Nat /\ y1 \in Nat /\ y0 <= y1 /\ y1 <= h
        /\ \A r \in rows : \A y \in Tile(r, Rows, h) : y \in Nat /\ y0 <= y /\ y < y1
    BY <2>2, <2>3, TilesInSpan, GridAssumption
  <2> HIDE DEF x0, x1, y0, y1
  <2>8. /\ box.x \in 0..w /\ box.w \in 0..w - box.x
        /\ box.y \in 0..h /\ box.h \in 0..h - box.y
    BY <2>2, <2>4, <2>6, <2>7
  <2>9. ASSUME NEW i \in Mask([w |-> w, h |-> h], blocks)
        PROVE  i % w \in box.x .. box.x + box.w - 1 /\ i \div w \in box.y .. box.y + box.h - 1
    <3>1. PICK b \in blocks : \E x \in Tile(b[2], Cols, w) :
                                  \E y \in Tile(b[1], Rows, h) : i = y * w + x
      BY <2>1, <2>2, MaskPixel
    <3>2. PICK x \in Tile(b[2], Cols, w), y \in Tile(b[1], Rows, h) : i = y * w + x
      BY <3>1
    <3>3. x \in Nat /\ x0 <= x /\ x < x1 /\ y \in Nat /\ y0 <= y /\ y < y1
      BY <2>5, <2>6, <2>7, <3>2
    <3>4. i % w = x /\ i \div w = y
      <4>1. x \in 0..w-1
        BY <2>2, <2>6, <3>3
      <4>2. QED
        BY <2>2, <3>2, <3>3, <4>1, PixelPlace
    <3>5. QED
      BY <2>4, <2>6, <2>7, <3>3, <3>4
  <2>10. QED
    BY <2>8, <2>9 DEF MaskInsideTheBox, w, h, blocks, box
<1>2. QED
  BY <1>1, PipelineInvariance, BoxInvariance, PTL
-----------------------------------------------------------------------------
(* The LCD                                                                 *)

\* What is drawn stays until the next picture is drawn.
Shown ==
    config.display = "usable" /\ screen # None => ShowsPicture(panel, lcd, screen)

\* An LCD in one of the two formats of a pixel that framebuffers have.
UsualPanels == \A p \in Panels : IsRgb565(p) \/ IsRgb888(p)

LEMMA ShownStep == UsualPanels /\ PInv /\ Shown /\ [Next]_vars => Shown'
<1> SUFFICES ASSUME UsualPanels, PInv, Shown, [Next]_vars PROVE Shown'
  OBVIOUS
<1>1. CASE Draw
  <2>1. /\ config' = config /\ panel' = panel
        /\ config.display = "usable" => screen' = rgb /\ lcd' = DrawPicture(panel, lcd, rgb)
        /\ pc = "draw"
    BY <1>1 DEF Draw
  <2> SUFFICES ASSUME config.display = "usable" PROVE ShowsPicture(panel', lcd', screen')
    BY <2>1 DEF Shown
  <2>2. /\ WellFormed(panel) /\ (IsRgb565(panel) \/ IsRgb888(panel))
        /\ DOMAIN lcd = 0..panel.mem-1
    BY PipelineAssumption DEF PInv, LcdShape, UsualPanels
  <2>3. /\ rgb.w \in Nat \ {0} /\ rgb.h \in Nat \ {0}
        /\ rgb.px \in [0..rgb.w*rgb.h-1 -> Nat]
    BY <2>1, ImageShape DEF PInv, LocalsShape
  <2>4. \A i \in 0..rgb.w*rgb.h-1 : rgb.px[i] \in Nat
    BY <2>3
  <2>5. ShowsPicture(panel, DrawPicture(panel, lcd, rgb), rgb)
    BY <2>2, <2>3, <2>4, PictureIsShown
  <2>6. QED
    BY <2>1, <2>5
<1>2. CASE UNCHANGED <<config, display>>
  BY <1>2 DEF Shown, display
<1>3. Draw \/ UNCHANGED <<config, display>>
  BY DEF Next, vars, TakeFrame, Decode, DecodeFails, Prepare, PrepareFails, Analyse,
         DrawFails, Save, SaveFails, Finish, Count, Stopped
<1>4. QED
  BY <1>1, <1>2, <1>3

\* The LCD shows the picture drawn last, whatever the sizes of the picture and
\* the screen, its panning and the length of its lines, in the usual formats of
\* a pixel.
THEOREM LcdIsRight ==
    ASSUME UsualPanels
    PROVE  Spec => []LcdShowsThePicture
<1>1. Init => Shown
  BY DEF Init, Shown
<1>2. PInv /\ Shown /\ [Next]_vars => Shown'
  BY ShownStep
<1>3. PInv /\ Shown => LcdShowsThePicture
  BY DEF PInv, LcdShape, Shown, LcdShowsThePicture
<1>4. QED
  BY <1>1, <1>2, <1>3, PipelineInvariance, PTL DEF Spec
=============================================================================
