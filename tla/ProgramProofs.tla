---------------------------- MODULE ProgramProofs ----------------------------
(***************************************************************************)
(* Proofs about Program for every set of command lines, every camera and   *)
(* every failure: what the parts keep is carried over from the process     *)
(* that runs one of them to the process that chooses among them.           *)
(***************************************************************************)
EXTENDS Program, CaptureDeviceProofs

-----------------------------------------------------------------------------
(* The inductive invariant                                                 *)

\* camera_list_formats: the descriptor is open from open to the last return,
\* and the index of the formats tells whether a line was printed.
ListShape ==
    /\ listPc \in {"open", "query", "format", "size", "interval", "done"}
    /\ fmt \in Nat /\ size \in Nat /\ interval \in Nat /\ printed \in Seq(Seq(Nat))
    /\ listed \in BOOLEAN /\ listFd \in BOOLEAN
    /\ listPc \in {"open", "done"} => ~listFd
    /\ listPc \in {"open", "query"} => printed = <<>> /\ fmt = 0 /\ ~listed
    /\ listPc = "format" => (fmt > 0) = (printed # <<>>)
    /\ listPc \in {"size", "interval"} => printed # <<>>
    /\ listPc = "done" => listed = (printed # <<>>)

\* framebuffer_test_pattern
TestShape ==
    /\ testPc \in {"calloc", "open", "info", "mmap", "clear", "draw", "close", "done"}
    /\ drawn \in BOOLEAN
    /\ testPc \in {"calloc", "done"} => holds = {}
    /\ testPc \notin {"close", "done"} => ~drawn

\* jpeg_decode_to_rgb565: what is allocated at each place of it.
JpegShape ==
    /\ jpegPc \in {"idle", "header", "malloc", "lines", "return"}
    /\ picture \in Seq({"image", "gray"}) /\ jpeg.height \in Nat /\ jpeg.lines \in Nat
    /\ out \in BOOLEAN
    /\ jpegPc = "idle" => heap = {} /\ ~pixels /\ picture = <<>> /\ ~out
    /\ jpegPc \in {"header", "malloc"} =>
          heap = {"codec"} /\ ~pixels /\ picture = <<>> /\ ~out
    /\ jpegPc = "lines" =>
          /\ heap = {"codec", "pixels"} /\ pixels /\ ~out
          /\ Len(picture) <= jpeg.height
    /\ \A i \in DOMAIN picture : picture[i] = "gray" <=> i > jpeg.lines
    /\ jpegPc = "return" => heap = IF out THEN {"pixels"} ELSE {}
    /\ jpegPc = "return" /\ out => Len(picture) = jpeg.height

\* What the loop of parse_args keeps, while it lasts.
Configurations ==
    [result : {"run", "help", "error"}, w : Int, h : Int, r : Int,
     n : FrameCounts \cup (Int \ Nat), format : Formats, threshold : Int,
     list : BOOLEAN, test : BOOLEAN, noSave : BOOLEAN, saveFrames : BOOLEAN,
     http : BOOLEAN, preview : BOOLEAN, detect : BOOLEAN, snapshots : BOOLEAN]

ParseShape ==
    stage = "parse" =>
        /\ options \in Seq(Options) /\ optind \in 0..Len(options)
        /\ config \in Configurations

\* What has run at each stage of main.
StageShape ==
    /\ stage \in {"parse", "list", "test", "capture", "decode", "exit"}
    /\ stage # "decode" => jpegPc = "idle"
    /\ stage = "decode" => Compressed
    /\ success \in BOOLEAN
    /\ stage # "exit" =>
          /\ Ran("list") => stage = "list"
          /\ Ran("test") => stage = "test"
          /\ Ran("capture") => stage \in {"capture", "decode"}
    /\ stage = "exit" =>
          \/ ~Ran("list") /\ ~Ran("test") /\ ~Ran("capture")
          \/ listPc = "done" /\ ~Ran("test") /\ ~Ran("capture") /\ success = listed
          \/ ~Ran("list") /\ testPc = "done" /\ ~Ran("capture") /\ success = drawn
          \/ ~Ran("list") /\ ~Ran("test") /\ pc = "exit" /\ success = status

PInv == DInv /\ ParseShape /\ ListShape /\ TestShape /\ JpegShape /\ StageShape

-----------------------------------------------------------------------------
(* The parts                                                               *)

\* A line more is a line.
LEMMA PrintLine ==
    ASSUME printed \in Seq(Seq(Nat)), NEW path \in Seq(Nat), Listing!PutLine(path)
    PROVE  printed' \in Seq(Seq(Nat)) /\ printed' # <<>>
<1>1. /\ Append(printed, path) \in Seq(Seq(Nat))
      /\ Len(Append(printed, path)) = Len(printed) + 1
  BY AppendFrame
<1>2. Len(printed) \in Nat
  OBVIOUS
<1>3. Append(printed, path) # <<>>
  <2> SUFFICES ASSUME Append(printed, path) = <<>> PROVE FALSE
    OBVIOUS
  <2>1. Len(Append(printed, path)) = 0
    <3>1. Len(<<>>) = 0
      OBVIOUS
    <3>2. QED
      BY <3>1, Zenon
  <2>2. QED
    BY <1>1, <1>2, <2>1
<1>4. QED
  BY <1>1, <1>3 DEF Listing!PutLine

\* The index paths are sequences of numbers.
LEMMA Paths ==
    ASSUME ListShape
    PROVE  /\ <<fmt>> \in Seq(Nat) /\ <<fmt, size>> \in Seq(Nat)
           /\ <<fmt, size, interval>> \in Seq(Nat)
BY DEF ListShape

\* A step of the listing.
LEMMA ListStep == ListShape /\ Listing!Next => ListShape'
<1> SUFFICES ASSUME ListShape, Listing!Next PROVE ListShape'
  OBVIOUS
<1> USE DEF ListShape, Listing!loops
<1>1. CASE Listing!Open
  <2>1. /\ listPc = "open" /\ UNCHANGED <<fmt, size, interval, printed, listed>>
        /\ \/ listFd' = TRUE /\ listPc' = "query"
           \/ listFd' = listFd /\ listPc' = "done"
    BY <1>1 DEF Listing!Open
  <2>2. CASE listFd' = TRUE /\ listPc' = "query"
    BY <2>1, <2>2
  <2>3. CASE listFd' = listFd /\ listPc' = "done"
    <3>1. listed' = (printed' # <<>>)
      BY <2>1
    <3>2. QED
      BY <2>1, <2>3, <3>1
  <2>4. QED
    BY <2>1, <2>2, <2>3
<1>2. CASE Listing!QueryCapabilities
  <2>1. /\ listPc = "query" /\ UNCHANGED <<fmt, size, interval, printed, listed>>
        /\ \/ listFd' = listFd /\ listPc' = "format"
           \/ listFd' = FALSE /\ listPc' = "done"
    BY <1>2 DEF Listing!QueryCapabilities
  <2>2. listed' = (printed' # <<>>) /\ (fmt' > 0) = (printed' # <<>>)
    BY <2>1
  <2>3. QED
    BY <2>1, <2>2
<1>3. CASE Listing!NextFormat
  <2>1. printed' \in Seq(Seq(Nat)) /\ printed' # <<>>
    BY <1>3, Paths, PrintLine DEF Listing!NextFormat
  <2>2. QED
    BY <1>3, <2>1 DEF Listing!NextFormat
<1>4. CASE Listing!FormatsEnd
  BY <1>4 DEF Listing!FormatsEnd
<1>5. CASE Listing!NextSize
  <2> DEFINE kind == Listing!Sizes[size + 1].type
  <2>1. CASE kind = "discrete"
    <3>1. /\ Listing!PutLine(<<fmt, size>>) /\ interval' = 0 /\ listPc' = "interval"
          /\ UNCHANGED <<fmt, size>> /\ listPc = "size"
          /\ UNCHANGED <<camera, listFd, disturbed, listed>>
      BY <1>5, <2>1 DEF Listing!NextSize
    <3>2. printed' \in Seq(Seq(Nat)) /\ printed' # <<>>
      BY <3>1, Paths, PrintLine
    <3>3. QED
      BY <3>1, <3>2
  <2>2. CASE kind = "range"
    <3>1. /\ Listing!PutLine(<<fmt, size>>) /\ fmt' = fmt + 1 /\ listPc' = "format"
          /\ UNCHANGED <<size, interval>> /\ listPc = "size"
          /\ UNCHANGED <<camera, listFd, disturbed, listed>>
      BY <1>5, <2>2 DEF Listing!NextSize
    <3>2. printed' \in Seq(Seq(Nat)) /\ printed' # <<>>
      BY <3>1, Paths, PrintLine
    <3>3. QED
      BY <3>1, <3>2
  <2>3. CASE kind \notin {"discrete", "range"}
    <3>1. /\ size' = size + 1 /\ UNCHANGED <<listPc, fmt, interval, printed>>
          /\ UNCHANGED <<camera, listFd, disturbed, listed>>
      BY <1>5, <2>3 DEF Listing!NextSize
    <3>2. QED
      BY <3>1
  <2>4. QED
    BY <2>1, <2>2, <2>3
<1>6. CASE Listing!SizesEnd
  BY <1>6 DEF Listing!SizesEnd
<1>7. CASE Listing!NextInterval
  <2>1. printed' \in Seq(Seq(Nat)) /\ printed' # <<>>
    <3>1. CASE Listing!PutLine(<<fmt, size, interval>>)
      BY <3>1, Paths, PrintLine
    <3>2. CASE printed' = printed
      BY <1>7, <3>2 DEF Listing!NextInterval
    <3>3. QED
      BY <1>7, <3>1, <3>2 DEF Listing!NextInterval, Listing!PrintInterval
  <2>2. /\ size' \in Nat /\ interval' \in Nat /\ listPc' \in {"size", "interval"}
        /\ UNCHANGED <<fmt, listed, listFd>>
    BY <1>7 DEF Listing!NextInterval
  <2>3. QED
    BY <2>1, <2>2
<1>8. CASE Listing!IntervalsEnd
  BY <1>8 DEF Listing!IntervalsEnd
<1>9. QED
  BY <1>1, <1>2, <1>3, <1>4, <1>5, <1>6, <1>7, <1>8 DEF Listing!Next

\* A step of the test pattern.
LEMMA TestStep == TestShape /\ Test!Next => TestShape'
<1> SUFFICES ASSUME TestShape, Test!Next PROVE TestShape'
  OBVIOUS
<1> USE DEF TestShape
<1>1. CASE Test!Calloc
  BY <1>1 DEF Test!Calloc, Test!Acquire
<1>2. CASE Test!OpenDevice
  BY <1>2 DEF Test!OpenDevice, Test!Acquire
<1>3. CASE Test!ReadInfo
  BY <1>3 DEF Test!ReadInfo
<1>4. CASE Test!Mmap
  BY <1>4 DEF Test!Mmap, Test!Acquire
<1>5. CASE Test!OpenFails
  BY <1>5 DEF Test!OpenFails
<1>6. CASE Test!Clear
  BY <1>6 DEF Test!Clear
<1>7. CASE Test!DrawBars
  BY <1>7 DEF Test!DrawBars
<1>8. CASE Test!CloseDisplay
  BY <1>8 DEF Test!CloseDisplay
<1>9. QED
  BY <1>1, <1>2, <1>3, <1>4, <1>5, <1>6, <1>7, <1>8 DEF Test!Next

\* A line more of the picture: gray when the data has ended.
LEMMA LineStored ==
    ASSUME JpegShape, Decoder!ReadLine
    PROVE  /\ picture' \in Seq({"image", "gray"}) /\ Len(picture') <= jpeg.height
           /\ \A i \in DOMAIN picture' : picture'[i] = "gray" <=> i > jpeg.lines
<1> DEFINE line == IF Len(picture) < jpeg.lines THEN "image" ELSE "gray"
<1>1. /\ picture \in Seq({"image", "gray"}) /\ line \in {"image", "gray"}
      /\ jpeg.height \in Nat /\ jpeg.lines \in Nat /\ Len(picture) < jpeg.height
      /\ picture' = Append(picture, line)
  BY DEF JpegShape, Decoder!ReadLine
<1>2. /\ picture' \in Seq({"image", "gray"}) /\ Len(picture') = Len(picture) + 1
      /\ Len(picture) \in Nat
  BY <1>1
<1>3. ASSUME NEW i \in DOMAIN picture' PROVE picture'[i] = "gray" <=> i > jpeg.lines
  <2>1. i \in 1..Len(picture) + 1
    BY <1>2, <1>3
  <2>2. CASE i = Len(picture) + 1
    <3>1. picture'[i] = line
      BY <1>1, <2>2
    <3>2. QED
      BY <1>1, <1>2, <2>2, <3>1
  <2>3. CASE i \in 1..Len(picture)
    <3>1. picture'[i] = picture[i] /\ i \in DOMAIN picture
      BY <1>1, <2>3
    <3>2. QED
      BY <3>1 DEF JpegShape
  <2>4. QED
    BY <1>2, <2>1, <2>2, <2>3
<1>4. QED
  BY <1>1, <1>2, <1>3

\* A step of the decoder, its call and its return.
LEMMA DecoderStep ==
    JpegShape /\ (Decoder!Call \/ Decoder!Next \/ Decoder!Free) => JpegShape'
<1> SUFFICES ASSUME JpegShape, Decoder!Call \/ Decoder!Next \/ Decoder!Free
             PROVE  JpegShape'
  OBVIOUS
<1>1. CASE Decoder!Call
  <2>1. jpeg'.height \in Nat /\ jpeg'.lines \in Nat
    BY <1>1, DevicesAssumption DEF Decoder!Call
  <2>2. /\ picture = <<>> /\ heap = {} /\ ~pixels /\ ~out
        /\ UNCHANGED <<pixels, picture, out>>
        /\ \/ heap' = {"codec"} /\ jpegPc' = "header"
           \/ heap' = heap /\ jpegPc' = "return"
    BY <1>1 DEF JpegShape, Decoder!Call
  <2>3. /\ picture' \in Seq({"image", "gray"})
        /\ \A i \in DOMAIN picture' : picture'[i] = "gray" <=> i > jpeg'.lines
    BY <2>2
  <2>4. QED
    BY <2>1, <2>2, <2>3 DEF JpegShape
<1>2. CASE Decoder!ReadHeader
  BY <1>2 DEF JpegShape, Decoder!ReadHeader
<1>3. CASE Decoder!Malloc
  <2>1. Len(picture) = 0
    BY <1>3 DEF JpegShape, Decoder!Malloc
  <2>2. QED
    BY <1>3, <2>1 DEF JpegShape, Decoder!Malloc
<1>4. CASE Decoder!MallocFails
  BY <1>4 DEF JpegShape, Decoder!MallocFails
<1>5. CASE Decoder!ReadLine
  <2>1. /\ jpegPc = "lines" /\ UNCHANGED <<jpegPc, jpeg, heap, pixels, out>>
    BY <1>5 DEF Decoder!ReadLine
  <2>2. QED
    BY <1>5, <2>1, LineStored DEF JpegShape
<1>6. CASE Decoder!Finish
  BY <1>6 DEF JpegShape, Decoder!Finish
<1>7. CASE Decoder!ErrorExit
  <2>1. heap' = {}
    BY <1>7 DEF JpegShape, Decoder!ErrorExit
  <2>2. QED
    BY <1>7, <2>1 DEF JpegShape, Decoder!ErrorExit
<1>8. CASE Decoder!Free
  <2>1. heap' = {} /\ picture' = <<>>
    BY <1>8 DEF JpegShape, Decoder!Free
  <2>2. jpeg'.height \in Nat /\ jpeg'.lines \in Nat
    BY <1>8 DEF Decoder!Free, Decoder!NoJpeg
  <2>3. /\ picture' \in Seq({"image", "gray"})
        /\ \A i \in DOMAIN picture' : picture'[i] = "gray" <=> i > jpeg'.lines
    BY <2>1
  <2>4. QED
    BY <1>8, <2>1, <2>2, <2>3 DEF JpegShape, Decoder!Free
<1>9. QED
  BY <1>1, <1>2, <1>3, <1>4, <1>5, <1>6, <1>7, <1>8 DEF Decoder!Next

\* A step of the capture.
LEMMA DeviceInvariant == DInv /\ [Next]_vars => DInv'
BY TypeStep, DeviceStep, AccountStep DEF DInv

-----------------------------------------------------------------------------
(* main                                                                    *)

\* What parse_args gives to the capture.
LEMMA Chosen ==
    ASSUME NEW c
    PROVE  /\ Selected(c) \in {"exit", "list", "test", "capture"}
           /\ ModeOf(c) \in Modes
<1>1. Selected(c) \in {"exit", "list", "test", "capture"}
  BY DEF Selected
<1>2. ModeOf(c) \in Modes
  BY DEF ModeOf, Modes
<1>3. QED
  BY <1>1, <1>2

\* The capture has not begun: its settings may still change.
LEMMA SettingsStep ==
    ASSUME DInv, pc = "open",
           mode' \in Modes, wanted' \in FrameCounts, format' \in Formats,
           UNCHANGED <<device, granted, mapped, index, driverVars, loopVars,
                       outVars, pc, status>>
    PROVE  DInv'
<1> USE DeviceAssumption DEF DInv, driverVars, loopVars, outVars
<1>1. TypeOK'
  BY DEF TypeOK, All
<1>2. DeviceShape'
  BY DEF DeviceShape, All
<1>3. Account'
  <2>1. written = <<>> /\ count = 0 /\ ~status /\ reported = reported'
    BY DEF Account, TallyShape, DeviceShape
  <2>2. TallyShape'
    BY <2>1 DEF Account, TallyShape, More, TypeOK
  <2>3. ReportsWhatItStored'
    BY <2>1 DEF Account, ReportsWhatItStored
  <2>4. SuccessIsComplete' /\ PreviewsWholePictures'
    BY <2>1 DEF SuccessIsComplete, PreviewsWholePictures
  <2>5. QED
    BY <2>2, <2>3, <2>4 DEF Account
<1>4. QED
  BY <1>1, <1>2, <1>3

\* An option is one of these, by its name.
LEMMA OptionIs ==
    ASSUME NEW o \in Options
    PROVE  /\ o.name \in {"w", "h", "r", "motion-threshold"} => o.arg \in Int
           /\ o.name = "n" => o.arg \in FrameCounts \cup (Int \ Nat)
           /\ o.name = "f" => o.arg \in Formats \cup {"bad"}
           /\ o.name \in {"http-mjpeg", "fb-test"} => o.arg \in BOOLEAN
BY DEF Options

\* An option that ends the loop says how, and changes nothing else.
LEMMA EndIs ==
    ASSUME NEW c, NEW o, Ends(o)
    PROVE  Effect(c, o) = [c EXCEPT !.result = Verdict(o)]
<1>1. CASE o.name = "help"
  BY <1>1 DEF Effect, Verdict
<1>2. CASE o.name # "help"
  BY <1>2 DEF Effect, Verdict, Ends, Settings
<1>3. QED
  BY <1>1, <1>2

\* What one option changes of a configuration, and what it leaves.
LEMMA EffectIs ==
    ASSUME NEW c \in Configurations, NEW o \in Options, ~Ends(o)
    PROVE  LET d == Effect(c, o)
           IN  /\ d \in Configurations /\ d.result = c.result
               /\ d.w = IF o.name = "w" THEN o.arg ELSE c.w
               /\ d.h = IF o.name = "h" THEN o.arg ELSE c.h
               /\ d.r = IF o.name = "r" THEN o.arg ELSE c.r
               /\ d.n = IF o.name = "n" THEN o.arg ELSE c.n
               /\ d.format = IF o.name = "f" THEN o.arg ELSE c.format
               /\ d.threshold = IF o.name = "motion-threshold" THEN o.arg ELSE c.threshold
               /\ d.test = IF o.name = "fb-test" THEN o.arg ELSE c.test
               /\ d.list <=> c.list \/ o.name = "L"
               /\ d.noSave <=> c.noSave \/ o.name = "no-save"
               /\ d.saveFrames <=> c.saveFrames \/ o.name = "save-frames"
               /\ d.http <=> c.http \/ o.name = "http-mjpeg"
               /\ d.preview <=> c.preview \/ o.name = "fb-preview"
               /\ d.detect <=> c.detect \/ o.name \in {"motion-detect", "motion-dir"}
               /\ d.snapshots <=> c.snapshots \/ o.name = "motion-dir"
<1>1. CASE o.name = "w"
  <2>1. Effect(c, o) = [c EXCEPT !.w = o.arg]
    BY <1>1 DEF Effect
  <2>2. Effect(c, o) \in Configurations
    BY <1>1, <2>1, OptionIs DEF Configurations
  <2>3. QED
    BY <1>1, <2>1, <2>2 DEF Configurations
<1>2. CASE o.name = "h"
  <2>1. Effect(c, o) = [c EXCEPT !.h = o.arg]
    BY <1>2 DEF Effect
  <2>2. Effect(c, o) \in Configurations
    BY <1>2, <2>1, OptionIs DEF Configurations
  <2>3. QED
    BY <1>2, <2>1, <2>2 DEF Configurations
<1>3. CASE o.name = "r"
  <2>1. Effect(c, o) = [c EXCEPT !.r = o.arg]
    BY <1>3 DEF Effect
  <2>2. Effect(c, o) \in Configurations
    BY <1>3, <2>1, OptionIs DEF Configurations
  <2>3. QED
    BY <1>3, <2>1, <2>2 DEF Configurations
<1>4. CASE o.name = "n"
  <2>1. Effect(c, o) = [c EXCEPT !.n = o.arg]
    BY <1>4 DEF Effect
  <2>2. Effect(c, o) \in Configurations
    BY <1>4, <2>1, OptionIs DEF Configurations
  <2>3. QED
    BY <1>4, <2>1, <2>2 DEF Configurations
<1>5. CASE o.name = "f"
  <2>1. Effect(c, o) = [c EXCEPT !.format = o.arg]
    BY <1>5 DEF Effect, Ends
  <2>2. Effect(c, o) \in Configurations
    BY <1>5, <2>1, OptionIs DEF Configurations, Ends
  <2>3. QED
    BY <1>5, <2>1, <2>2 DEF Configurations
<1>6. CASE o.name = "motion-threshold"
  <2>1. Effect(c, o) = [c EXCEPT !.threshold = o.arg]
    BY <1>6 DEF Effect
  <2>2. Effect(c, o) \in Configurations
    BY <1>6, <2>1, OptionIs DEF Configurations
  <2>3. QED
    BY <1>6, <2>1, <2>2 DEF Configurations
<1>7. CASE o.name = "fb-test"
  <2>1. Effect(c, o) = [c EXCEPT !.test = o.arg]
    BY <1>7 DEF Effect
  <2>2. Effect(c, o) \in Configurations
    BY <1>7, <2>1, OptionIs DEF Configurations
  <2>3. QED
    BY <1>7, <2>1, <2>2 DEF Configurations
<1>8. CASE o.name = "http-mjpeg"
  <2>1. Effect(c, o) = [c EXCEPT !.http = TRUE]
    BY <1>8 DEF Effect, Ends
  <2>2. Effect(c, o) \in Configurations
    BY <1>8, <2>1 DEF Configurations
  <2>3. QED
    BY <1>8, <2>1, <2>2 DEF Configurations
<1>9. CASE o.name = "L"
  <2>1. Effect(c, o) = [c EXCEPT !.list = TRUE]
    BY <1>9 DEF Effect
  <2>2. Effect(c, o) \in Configurations
    BY <1>9, <2>1 DEF Configurations
  <2>3. QED
    BY <1>9, <2>1, <2>2 DEF Configurations
<1>10. CASE o.name = "no-save"
  <2>1. Effect(c, o) = [c EXCEPT !.noSave = TRUE]
    BY <1>10 DEF Effect
  <2>2. Effect(c, o) \in Configurations
    BY <1>10, <2>1 DEF Configurations
  <2>3. QED
    BY <1>10, <2>1, <2>2 DEF Configurations
<1>11. CASE o.name = "save-frames"
  <2>1. Effect(c, o) = [c EXCEPT !.saveFrames = TRUE]
    BY <1>11 DEF Effect
  <2>2. Effect(c, o) \in Configurations
    BY <1>11, <2>1 DEF Configurations
  <2>3. QED
    BY <1>11, <2>1, <2>2 DEF Configurations
<1>12. CASE o.name = "fb-preview"
  <2>1. Effect(c, o) = [c EXCEPT !.preview = TRUE]
    BY <1>12 DEF Effect
  <2>2. Effect(c, o) \in Configurations
    BY <1>12, <2>1 DEF Configurations
  <2>3. QED
    BY <1>12, <2>1, <2>2 DEF Configurations
<1>13. CASE o.name = "motion-detect"
  <2>1. Effect(c, o) = [c EXCEPT !.detect = TRUE]
    BY <1>13 DEF Effect
  <2>2. Effect(c, o) \in Configurations
    BY <1>13, <2>1 DEF Configurations
  <2>3. QED
    BY <1>13, <2>1, <2>2 DEF Configurations
<1>14. CASE o.name = "motion-dir"
  <2>1. Effect(c, o) = [c EXCEPT !.detect = TRUE, !.snapshots = TRUE]
    BY <1>14 DEF Effect
  <2>2. Effect(c, o) \in Configurations
    BY <1>14, <2>1 DEF Configurations
  <2>3. QED
    BY <1>14, <2>1, <2>2 DEF Configurations
<1>15. QED
  BY <1>1, <1>2, <1>3, <1>4, <1>5, <1>6, <1>7, <1>8, <1>9, <1>10, <1>11, <1>12,
     <1>13, <1>14 DEF Ends, Settings

\* The configuration keeps its type.
LEMMA EffectTyped ==
    ASSUME NEW c \in Configurations, NEW o \in Options
    PROVE  Effect(c, o) \in Configurations
<1>1. CASE Ends(o)
  BY <1>1, EndIs DEF Configurations, Verdict
<1>2. CASE ~Ends(o)
  BY <1>2, EffectIs
<1>3. QED
  BY <1>1, <1>2

\* The defaults.
LEMMA DefaultsTyped == Defaults \in Configurations
BY ProgramAssumption DEF Defaults, Configurations, Formats

\* What the checks let through.
LEMMA CheckedTyped ==
    ASSUME NEW c \in Configurations, Selected(Checked(c)) = "capture"
    PROVE  /\ c.result = "run" /\ Acceptable(c) /\ Checked(c) = c
           /\ c.n \in FrameCounts /\ c.format \in Formats
<1>1. Checked(c).result = "run"
  BY DEF Selected
<1>2. c.result = "run" /\ Acceptable(c)
  BY <1>1 DEF Checked, Configurations
<1>3. c.n \in FrameCounts
  BY <1>2 DEF Acceptable, Configurations
<1>4. QED
  BY <1>2, <1>3 DEF Checked, Configurations

\* One option read keeps the invariant,
LEMMA ReadStep == PInv /\ ReadOption => PInv'
<1> SUFFICES ASSUME PInv, ReadOption PROVE PInv'
  OBVIOUS
<1>1. /\ stage = "parse" /\ optind < Len(options)
      /\ config' = Effect(config, options[optind + 1]) /\ optind' = optind + 1
      /\ UNCHANGED <<options, stage, success, listVars, testVars, jpegVars, vars>>
  BY DEF ReadOption, Reading
<1>2. DInv'
  BY <1>1, DeviceInvariant DEF PInv
<1>3. ParseShape'
  <2>1. /\ options \in Seq(Options) /\ optind \in 0..Len(options)
        /\ config \in Configurations
    BY <1>1 DEF PInv, ParseShape
  <2>2. Len(options) \in Nat /\ options[optind + 1] \in Options
    BY <1>1, <2>1
  <2>3. config' \in Configurations
    BY <1>1, <2>1, <2>2, EffectTyped
  <2>4. optind' \in 0..Len(options)
    BY <1>1, <2>1, <2>2
  <2>5. QED
    BY <1>1, <2>1, <2>3, <2>4 DEF ParseShape
<1>4. ListShape' /\ TestShape' /\ JpegShape'
  BY <1>1 DEF PInv, ListShape, TestShape, JpegShape, listVars, testVars, jpegVars
<1>5. StageShape'
  BY <1>1 DEF PInv, StageShape, Ran, Compressed, Skipped, listVars, testVars, jpegVars,
              vars, setting, deviceVars, loopVars
<1>6. QED
  BY <1>2, <1>3, <1>4, <1>5 DEF PInv

\* and so does the choice main makes after the last.
LEMMA ParseStep == PInv /\ ParseReturns => PInv'
<1> SUFFICES ASSUME PInv, ParseReturns PROVE PInv'
  OBVIOUS
<1> DEFINE c == Checked(config)
<1>1. /\ stage = "parse" /\ stage' = Selected(c) /\ success' = (c.result = "help")
      /\ UNCHANGED <<listVars, testVars, jpegVars, device, granted, mapped, index,
                     driverVars, loopVars, outVars, pc, status>>
      /\ IF Selected(c) = "capture"
         THEN mode' = ModeOf(c) /\ wanted' = c.n /\ format' = c.format
         ELSE UNCHANGED <<mode, wanted, format>>
  BY DEF ParseReturns
<1>2. pc = "open" /\ listPc = "open" /\ testPc = "calloc"
  BY <1>1 DEF PInv, StageShape, Ran
<1>3. DInv'
  <2>1. mode' \in Modes /\ wanted' \in FrameCounts /\ format' \in Formats
    <3>1. CASE Selected(c) = "capture"
      <4>1. config \in Configurations
        BY <1>1 DEF PInv, ParseShape
      <4>2. c.n \in FrameCounts /\ c.format \in Formats
        BY <3>1, <4>1, CheckedTyped
      <4>3. mode' = ModeOf(c) /\ wanted' = c.n /\ format' = c.format
        BY <1>1, <3>1
      <4>4. QED
        BY <4>2, <4>3, Chosen
    <3>2. CASE Selected(c) # "capture"
      BY <1>1, <3>2 DEF PInv, DInv, TypeOK
    <3>3. QED
      BY <3>1, <3>2
  <2>2. QED
    BY <1>1, <1>2, <2>1, SettingsStep DEF PInv
<1>4. ListShape' /\ TestShape' /\ JpegShape'
  BY <1>1 DEF PInv, ListShape, TestShape, JpegShape, listVars, testVars, jpegVars
<1>5. stage' \in {"exit", "list", "test", "capture"}
  BY <1>1, Chosen
<1>6. StageShape'
  <2>1. /\ listPc' = "open" /\ testPc' = "calloc" /\ pc' = "open"
        /\ jpegPc' = "idle"
    BY <1>1, <1>2 DEF PInv, StageShape, listVars, testVars, jpegVars
  <2>2. success' \in BOOLEAN
    BY <1>1
  <2>3. QED
    BY <1>5, <2>1, <2>2 DEF StageShape, Ran
<1>7. ParseShape'
  BY <1>5 DEF ParseShape
<1>8. QED
  BY <1>3, <1>4, <1>6, <1>7 DEF PInv

\* A step of the capture in the process.
LEMMA CaptureStep ==
    ASSUME PInv, stage = "capture", pc # "exit", Next,
           UNCHANGED <<parseVars, stage, success, listVars, testVars, jpegVars>>
    PROVE  PInv'
<1>1. DInv'
  BY DeviceInvariant DEF PInv
<1>2. ListShape' /\ TestShape' /\ JpegShape'
  BY DEF PInv, ListShape, TestShape, JpegShape, listVars, testVars, jpegVars
<1>3. StageShape'
  BY DEF PInv, StageShape, Ran, listVars, testVars, jpegVars
<1>4. QED
  BY <1>1, <1>2, <1>3 DEF PInv, ParseShape

\* Every step of the process keeps the invariant.
LEMMA ProcessStep == PInv /\ [ProgramNext]_programVars => PInv'
<1> SUFFICES ASSUME PInv, [ProgramNext]_programVars PROVE PInv'
  OBVIOUS
<1>1. CASE ReadOption \/ ParseReturns
  BY <1>1, ReadStep, ParseStep
<1>2. CASE List
  <2>1. /\ stage = "list" /\ Listing!Next
        /\ UNCHANGED <<parseVars, stage, success, testVars, jpegVars, vars>>
    BY <1>2 DEF List
  <2>2. DInv'
    BY <2>1, DeviceInvariant DEF PInv
  <2>3. ListShape'
    BY <2>1, ListStep DEF PInv
  <2>4. TestShape' /\ JpegShape'
    BY <2>1 DEF PInv, TestShape, JpegShape, testVars, jpegVars
  <2>5. StageShape'
    BY <2>1 DEF PInv, StageShape, Ran, testVars, jpegVars, vars
  <2>6. QED
    BY <2>1, <2>2, <2>3, <2>4, <2>5 DEF PInv, ParseShape
<1>3. CASE DrawTest
  <2>1. /\ stage = "test" /\ Test!Next
        /\ UNCHANGED <<parseVars, stage, success, listVars, jpegVars, vars>>
    BY <1>3 DEF DrawTest
  <2>2. DInv'
    BY <2>1, DeviceInvariant DEF PInv
  <2>3. TestShape'
    BY <2>1, TestStep DEF PInv
  <2>4. ListShape' /\ JpegShape'
    BY <2>1 DEF PInv, ListShape, JpegShape, listVars, jpegVars
  <2>5. StageShape'
    BY <2>1 DEF PInv, StageShape, Ran, listVars, jpegVars, vars
  <2>6. QED
    BY <2>1, <2>2, <2>3, <2>4, <2>5 DEF PInv, ParseShape
<1>4. CASE ListReturns \/ TestReturns \/ CaptureReturns
  <2>1. /\ UNCHANGED <<parseVars, listVars, testVars, jpegVars, vars>>
        /\ stage' = "exit"
        /\ \/ stage = "list" /\ listPc = "done" /\ success' = listed
           \/ stage = "test" /\ testPc = "done" /\ success' = drawn
           \/ stage = "capture" /\ pc = "exit" /\ success' = status
    BY <1>4 DEF ListReturns, TestReturns, CaptureReturns
  <2>2. DInv'
    BY <2>1, DeviceInvariant DEF PInv
  <2>3. ListShape' /\ TestShape' /\ JpegShape'
    BY <2>1 DEF PInv, ListShape, TestShape, JpegShape, listVars, testVars, jpegVars
  <2>4. listed \in BOOLEAN /\ drawn \in BOOLEAN /\ status \in BOOLEAN
    BY DEF PInv, DInv, TypeOK, ListShape, TestShape
  <2>5. StageShape'
    BY <2>1, <2>4 DEF PInv, StageShape, Ran, listVars, testVars, jpegVars, vars
  <2>6. QED
    BY <2>1, <2>2, <2>3, <2>5 DEF PInv, ParseShape
<1>5. CASE InCapture(Step)
  BY <1>5, CaptureStep DEF InCapture, Next
<1>6. CASE InCapture(Serve)
  BY <1>6, CaptureStep DEF InCapture, Next
<1>7. ASSUME NEW s \in Sizes, InCapture(Dequeue(s)) PROVE PInv'
  BY <1>7, CaptureStep DEF InCapture, Next
<1>8. CASE InCapture(Timeout) \/ InCapture(CameraFails)
  BY <1>8, CaptureStep DEF InCapture, Next
<1>9. CASE CallDecoder
  <2>1. /\ stage = "capture" /\ Compressed /\ Decoder!Call /\ stage' = "decode"
        /\ UNCHANGED <<parseVars, success, listVars, testVars, vars>>
    BY <1>9 DEF CallDecoder
  <2>2. DInv'
    BY <2>1, DeviceInvariant DEF PInv
  <2>3. ListShape' /\ TestShape' /\ JpegShape'
    BY <2>1, DecoderStep DEF PInv, ListShape, TestShape, listVars, testVars
  <2>4. StageShape'
    BY <2>1 DEF PInv, StageShape, Ran, Compressed, Skipped, listVars, testVars,
                vars, setting, deviceVars, loopVars
  <2>5. QED
    BY <2>1, <2>2, <2>3, <2>4 DEF PInv, ParseShape
<1>10. CASE DecodeStep
  <2>1. /\ stage = "decode" /\ Decoder!Next
        /\ UNCHANGED <<parseVars, stage, success, listVars, testVars, vars>>
    BY <1>10 DEF DecodeStep
  <2>2. DInv'
    BY <2>1, DeviceInvariant DEF PInv
  <2>3. ListShape' /\ TestShape' /\ JpegShape'
    BY <2>1, DecoderStep DEF PInv, ListShape, TestShape, listVars, testVars
  <2>4. StageShape'
    BY <2>1 DEF PInv, StageShape, Ran, Compressed, Skipped, listVars, testVars,
                vars, setting, deviceVars, loopVars
  <2>5. QED
    BY <2>1, <2>2, <2>3, <2>4 DEF PInv, ParseShape
<1>11. CASE DecoderReturns
  <2>1. /\ stage = "decode" /\ Decoder!Free /\ Next /\ stage' = "capture"
        /\ UNCHANGED <<parseVars, success, listVars, testVars>>
    BY <1>11 DEF DecoderReturns, Next, Step
  <2>2. DInv'
    BY <2>1, DeviceInvariant DEF PInv
  <2>3. ListShape' /\ TestShape' /\ JpegShape'
    BY <2>1, DecoderStep DEF PInv, ListShape, TestShape, listVars, testVars
  <2>4. StageShape'
    BY <2>1 DEF PInv, StageShape, Ran, Decoder!Free, listVars, testVars
  <2>5. QED
    BY <2>1, <2>2, <2>3, <2>4 DEF PInv, ParseShape
<1>12. CASE Ended \/ UNCHANGED programVars
  <2>1. UNCHANGED <<parseVars, stage, success, listVars, testVars, jpegVars, vars>>
    BY <1>12 DEF Ended, programVars
  <2>2. DInv'
    BY <2>1, DeviceInvariant DEF PInv
  <2>3. ListShape' /\ TestShape' /\ JpegShape'
    BY <2>1 DEF PInv, ListShape, TestShape, JpegShape, listVars, testVars, jpegVars
  <2>4. StageShape'
    BY <2>1 DEF PInv, StageShape, Ran, Compressed, Skipped, listVars, testVars,
                jpegVars, vars, setting, deviceVars, loopVars
  <2>5. QED
    BY <2>1, <2>2, <2>3, <2>4 DEF PInv, ParseShape, parseVars
<1>13. QED
  BY <1>1, <1>2, <1>3, <1>4, <1>5, <1>6, <1>7, <1>8, <1>9, <1>10, <1>11, <1>12
     DEF ProgramNext, ProgramStep

\* The process begins in the invariant.
LEMMA ProcessInit == ProgramInit => PInv
<1> SUFFICES ASSUME ProgramInit PROVE PInv
  OBVIOUS
<1>1. DInv
  BY CaptureInit DEF ProgramInit
<1>2. ListShape
  <2>1. printed = <<>> /\ printed \in Seq(Seq(Nat))
    BY DEF ProgramInit, Listing!Init
  <2>2. QED
    BY <2>1 DEF ListShape, ProgramInit, Listing!Init
<1>3. TestShape
  BY DEF TestShape, ProgramInit, Test!Init
<1>4. JpegShape
  <2>1. /\ jpegPc = "idle" /\ heap = {} /\ pixels = FALSE /\ picture = <<>>
        /\ out = FALSE /\ jpeg = [height |-> 0, lines |-> 0]
    BY DEF ProgramInit, Decoder!Init, Decoder!NoJpeg
  <2>2. /\ picture \in Seq({"image", "gray"})
        /\ \A i \in DOMAIN picture : picture[i] = "gray" <=> i > jpeg.lines
    BY <2>1
  <2>3. jpeg.height \in Nat /\ jpeg.lines \in Nat
    BY <2>1
  <2>4. QED
    BY <2>1, <2>2, <2>3 DEF JpegShape
<1>5. StageShape
  BY DEF StageShape, Ran, ProgramInit, Init, Listing!Init, Test!Init, Decoder!Init
<1>6. ParseShape
  <2>1. options \in Seq(Options) /\ optind = 0 /\ config \in Configurations
    BY ProgramAssumption, DefaultsTyped DEF ProgramInit
  <2>2. optind \in 0..Len(options)
    BY <2>1
  <2>3. QED
    BY <2>1, <2>2 DEF ParseShape
<1>7. QED
  BY <1>1, <1>2, <1>3, <1>4, <1>5, <1>6 DEF PInv

\* What each of main's parts keeps, and which has run at each stage, holds in
\* all states of the process.
THEOREM ProcessInvariance == ProgramSpec => []PInv
<1>1. QED
  BY ProcessInit, ProcessStep, PTL DEF ProgramSpec

-----------------------------------------------------------------------------
(* Theorems                                                                *)

(***************************************************************************)
(* The types, the round of the buffers, the report, the success and the    *)
(* whole pictures of a capture hold in the process that parses a command   *)
(* line first, whatever configuration comes out of it.                     *)
(***************************************************************************)
THEOREM CaptureInProcess ==
    ProgramSpec => [](TypeOK /\ BuffersGoRound /\ SuccessIsComplete
                        /\ ReportsWhatItStored /\ PreviewsWholePictures)
<1>1. PInv => /\ TypeOK /\ BuffersGoRound /\ SuccessIsComplete
              /\ ReportsWhatItStored /\ PreviewsWholePictures
  BY DEF PInv, DInv, Account, DeviceShape, BuffersGoRound
<1>2. QED
  BY <1>1, ProcessInvariance, PTL

(***************************************************************************)
(* Whatever the command line and whatever failed, the process exits with   *)
(* nothing open, mapped or streaming.                                      *)
(***************************************************************************)
THEOREM ProcessLeavesNothing == ProgramSpec => []NothingLeftBehindAtExit
<1>1. PInv => NothingLeftBehindAtExit
  <2> SUFFICES ASSUME PInv, stage = "exit"
               PROVE  /\ mapped = {} /\ ~device /\ ~streaming /\ open = {}
                      /\ ~listFd /\ holds = {} /\ heap = {}
    BY DEF NothingLeftBehindAtExit
  <2>1. pc \in {"open", "exit"} /\ listPc \in {"open", "done"}
        /\ testPc \in {"calloc", "done"} /\ jpegPc = "idle"
    BY DEF PInv, StageShape, Ran
  <2>2. mapped = {} /\ ~device /\ ~streaming /\ open = {}
    BY <2>1 DEF PInv, DInv, DeviceShape
  <2>3. ~listFd /\ holds = {} /\ heap = {}
    BY <2>1 DEF PInv, ListShape, TestShape, JpegShape
  <2>4. QED
    BY <2>2, <2>3
<1>2. QED
  BY <1>1, ProcessInvariance, PTL

(***************************************************************************)
(* At most one part has run, and the exit status says whether it did what  *)
(* it was asked for.                                                       *)
(***************************************************************************)
THEOREM HonestStatus == ProgramSpec => []ExitStatusIsHonest
<1>1. PInv => ExitStatusIsHonest
  <2> SUFFICES ASSUME PInv, stage = "exit"
               PROVE  /\ \A p, q \in {"list", "test", "capture"} :
                            Ran(p) /\ Ran(q) => p = q
                      /\ Ran("list") => success = (printed # <<>>)
                      /\ Ran("test") => success = drawn
                      /\ Ran("capture") /\ success => status /\ SuccessIsComplete
    BY DEF ExitStatusIsHonest
  <2>1. /\ \A p, q \in {"list", "test", "capture"} : Ran(p) /\ Ran(q) => p = q
        /\ Ran("list") => listPc = "done" /\ success = listed
        /\ Ran("test") => testPc = "done" /\ success = drawn
        /\ Ran("capture") => pc = "exit" /\ success = status
    BY DEF PInv, StageShape
  <2>2. Ran("list") => success = (printed # <<>>)
    BY <2>1 DEF PInv, ListShape
  <2>3. Ran("test") => success = drawn
    BY <2>1
  <2>4. Ran("capture") /\ success => status /\ SuccessIsComplete
    BY <2>1 DEF PInv, DInv, Account
  <2>5. QED
    BY <2>1, <2>2, <2>3, <2>4
<1>2. QED
  BY <1>1, ProcessInvariance, PTL

(***************************************************************************)
(* Whatever the JPEGs and wherever libjpeg gives up, a preview's decoder   *)
(* returns a whole picture or nothing and leaves nothing allocated.        *)
(***************************************************************************)
THEOREM WholePicturesDecoded == ProgramSpec => []DecodesWholePictures
<1>1. PInv => DecodesWholePictures
  BY DEF PInv, JpegShape, DecodesWholePictures, Decoder!WholePictureOrNothing
<1>2. QED
  BY <1>1, ProcessInvariance, PTL
-----------------------------------------------------------------------------
(* The listing                                                             *)

\* What the driver offers, where the three loops are in it, and that what ends a
\* list would have ended them had they passed it.
Place ==
    /\ camera \in Seq(Seq([type : Listing!SizeTypes, intervals : Seq(Listing!IntervalTypes)]))
    /\ disturbed \in BOOLEAN
    /\ listPc \in {"size", "interval"} =>
          /\ fmt < Len(camera) /\ size <= Len(camera[fmt + 1])
          /\ \A j \in 1..size : camera[fmt + 1][j].type # "range"
    /\ listPc = "interval" =>
          /\ size < Len(camera[fmt + 1])
          /\ camera[fmt + 1][size + 1].type = "discrete"
          /\ interval <= Len(camera[fmt + 1][size + 1].intervals)
          /\ \A j \in 1..interval : camera[fmt + 1][size + 1].intervals[j] \notin {"range", "unknown"}
    /\ listPc # "done" => ~listed
    /\ listed /\ ~disturbed => Len(camera) <= fmt

\* The lines that come before that place.
Past(p) ==
    \/ p[1] < fmt
    \/ /\ p[1] = fmt /\ listPc \in {"size", "interval"}
       /\ \/ Len(p) = 1
          \/ Len(p) > 1 /\ p[2] < size
          \/ Len(p) = 2 /\ p[2] = size /\ listPc = "interval"
          \/ Len(p) > 2 /\ p[2] = size /\ p[3] < interval /\ listPc = "interval"

\* They, and only they, have been printed, in their order.
Told ==
    /\ \A i \in DOMAIN printed : printed[i] \in Listing!Lines /\ Past(printed[i])
    /\ \A i, j \in DOMAIN printed : i < j => Listing!Before(printed[i], printed[j])
    /\ listPc \notin {"open", "query"} /\ ~disturbed =>
          \A p \in Listing!Lines : Past(p) => \E i \in DOMAIN printed : printed[i] = p

\* The fields of what is offered.
LEMMA CameraParts ==
    ASSUME Place, NEW f \in Nat, f < Len(camera)
    PROVE  /\ f + 1 \in DOMAIN camera /\ DOMAIN camera = 1..Len(camera)
           /\ Len(camera[f + 1]) \in Nat
           /\ DOMAIN camera[f + 1] = 1..Len(camera[f + 1])
           /\ \A s \in 1..Len(camera[f + 1]) :
                 /\ camera[f + 1][s].type \in {"discrete", "range", "unknown"}
                 /\ Len(camera[f + 1][s].intervals) \in Nat
                 /\ DOMAIN camera[f + 1][s].intervals = 1..Len(camera[f + 1][s].intervals)
                 /\ \A i \in DOMAIN camera[f + 1][s].intervals :
                       camera[f + 1][s].intervals[i] \in Listing!IntervalTypes
<1> DEFINE Size == [type : Listing!SizeTypes, intervals : Seq(Listing!IntervalTypes)]
<1>1. camera \in Seq(Seq(Size))
  BY DEF Place
<1> HIDE DEF Size
<1>2. /\ f + 1 \in DOMAIN camera /\ DOMAIN camera = 1..Len(camera)
      /\ camera[f + 1] \in Seq(Size)
  BY <1>1
<1> DEFINE sizes == camera[f + 1]
<1> HIDE DEF sizes
<1>3. /\ sizes \in Seq(Size) /\ Len(sizes) \in Nat /\ DOMAIN sizes = 1..Len(sizes)
      /\ \A s \in 1..Len(sizes) : sizes[s] \in Size
  BY <1>2 DEF sizes
<1>4. ASSUME NEW s \in 1..Len(sizes)
      PROVE  /\ sizes[s].type \in {"discrete", "range", "unknown"}
             /\ sizes[s].intervals \in Seq(Listing!IntervalTypes)
  BY <1>3 DEF Size, Listing!SizeTypes
<1>5. ASSUME NEW s \in 1..Len(sizes)
      PROVE  /\ Len(sizes[s].intervals) \in Nat
             /\ DOMAIN sizes[s].intervals = 1..Len(sizes[s].intervals)
             /\ \A i \in DOMAIN sizes[s].intervals :
                   sizes[s].intervals[i] \in Listing!IntervalTypes
  BY <1>4
<1>6. QED
  BY <1>2, <1>3, <1>4, <1>5 DEF sizes

\* The lines of a camera, written out.
LEMMA LineIs ==
    ASSUME NEW p
    PROVE  p \in Listing!Lines <=>
             \E f \in DOMAIN camera :
                \/ p = <<f - 1>>
                \/ \E s \in Listing!SizeLines(f) :
                      \/ p = <<f - 1, s - 1>>
                      \/ \E i \in Listing!IntervalLines(f, s) : p = <<f - 1, s - 1, i - 1>>
BY DEF Listing!Lines

\* A size is asked for if no range comes before it.
LEMMA SizeLine ==
    ASSUME Place, NEW f \in Nat, f < Len(camera), NEW s \in Nat, s < Len(camera[f + 1])
    PROVE  s + 1 \in Listing!SizeLines(f + 1) <=>
             /\ camera[f + 1][s + 1].type # "unknown"
             /\ \A j \in 1..s : camera[f + 1][j].type # "range"
<1> DEFINE sizes == camera[f + 1]
           types == [k \in DOMAIN sizes |-> sizes[k].type]
<1>1. Len(sizes) \in Nat /\ DOMAIN sizes = 1..Len(sizes)
  BY CameraParts
<1> HIDE DEF sizes
<1>2. s + 1 \in DOMAIN types /\ 1..(s + 1) - 1 = 1..s
  BY <1>1 DEF sizes
<1>3. \A j \in 1..s : j \in DOMAIN sizes /\ types[j] = sizes[j].type
  BY <1>1, <1>2
<1> HIDE DEF types
<1>4. s + 1 \in Listing!Reached(types, {"range"}) <=> \A j \in 1..s : sizes[j].type # "range"
  BY <1>2, <1>3 DEF Listing!Reached
<1>5. QED
  BY <1>4 DEF Listing!SizeLines, types, sizes

LEMMA IntervalLine ==
    ASSUME Place, NEW f \in Nat, f < Len(camera), NEW s \in Nat, s < Len(camera[f + 1]),
           NEW i \in Nat, i < Len(camera[f + 1][s + 1].intervals)
    PROVE  i + 1 \in Listing!IntervalLines(f + 1, s + 1) <=>
             /\ camera[f + 1][s + 1].type = "discrete"
             /\ camera[f + 1][s + 1].intervals[i + 1] \in {"discrete", "range"}
             /\ \A j \in 1..i : camera[f + 1][s + 1].intervals[j] \notin {"range", "unknown"}
<1> DEFINE types == camera[f + 1][s + 1].intervals
<1>1. s + 1 \in 1..Len(camera[f + 1])
  BY CameraParts
<1>2. Len(types) \in Nat /\ DOMAIN types = 1..Len(types)
  BY <1>1, CameraParts
<1> HIDE DEF types
<1>3. i + 1 \in DOMAIN types /\ 1..(i + 1) - 1 = 1..i
  BY <1>2 DEF types
<1>4. i + 1 \in Listing!Reached(types, {"range", "unknown"}) <=> \A j \in 1..i : types[j] \notin {"range", "unknown"}
  BY <1>3 DEF Listing!Reached
<1>5. QED
  BY <1>4 DEF Listing!IntervalLines, types

\* What a line says of the camera.
LEMMA LineParts ==
    ASSUME Place, NEW p \in Listing!Lines
    PROVE  /\ p \in Seq(Nat) /\ Len(p) \in 1..3
           /\ p[1] \in Nat /\ p[1] < Len(camera)
           /\ Len(p) = 1 => p = <<p[1]>>
           /\ Len(p) > 1 =>
                 /\ p[2] \in Nat /\ p[2] < Len(camera[p[1] + 1])
                 /\ camera[p[1] + 1][p[2] + 1].type # "unknown"
                 /\ \A j \in 1..p[2] : camera[p[1] + 1][j].type # "range"
           /\ Len(p) = 2 => p = <<p[1], p[2]>>
           /\ Len(p) > 2 =>
                 /\ p[3] \in Nat /\ p = <<p[1], p[2], p[3]>>
                 /\ camera[p[1] + 1][p[2] + 1].type = "discrete"
                 /\ p[3] < Len(camera[p[1] + 1][p[2] + 1].intervals)
                 /\ camera[p[1] + 1][p[2] + 1].intervals[p[3] + 1] \in {"discrete", "range"}
                 /\ \A j \in 1..p[3] : camera[p[1] + 1][p[2] + 1].intervals[j] \notin {"range", "unknown"}
<1>1. PICK k \in DOMAIN camera :
         \/ p = <<k - 1>>
         \/ \E s \in Listing!SizeLines(k) :
               \/ p = <<k - 1, s - 1>>
               \/ \E i \in Listing!IntervalLines(k, s) : p = <<k - 1, s - 1, i - 1>>
  BY LineIs
<1> DEFINE f == k - 1
<1> DEFINE Facts ==
             /\ p \in Seq(Nat) /\ Len(p) \in 2..3 /\ p[1] = f
             /\ p[2] \in Nat /\ p[2] < Len(camera[f + 1])
             /\ camera[f + 1][p[2] + 1].type # "unknown"
             /\ \A j \in 1..p[2] : camera[f + 1][j].type # "range"
             /\ Len(p) = 2 => p = <<p[1], p[2]>>
             /\ Len(p) > 2 =>
                   /\ p[3] \in Nat /\ p = <<p[1], p[2], p[3]>>
                   /\ camera[f + 1][p[2] + 1].type = "discrete"
                   /\ p[3] < Len(camera[f + 1][p[2] + 1].intervals)
                   /\ camera[f + 1][p[2] + 1].intervals[p[3] + 1] \in {"discrete", "range"}
                   /\ \A j \in 1..p[3] : camera[f + 1][p[2] + 1].intervals[j] \notin {"range", "unknown"}
<1>2. f \in Nat /\ f < Len(camera) /\ k = f + 1
  BY <1>1 DEF Place
<1> HIDE DEF f
<1>3. CASE p = <<f>>
  <2>1. p \in Seq(Nat) /\ Len(p) = 1 /\ p[1] = f
    BY <1>2, <1>3
  <2>2. QED
    BY <1>2, <1>3, <2>1
<1>4. ASSUME NEW t \in Listing!SizeLines(k), p = <<f, t - 1>> \/
               \E i \in Listing!IntervalLines(k, t) : p = <<f, t - 1, i - 1>>
      PROVE  Facts
    <2> DEFINE s == t - 1
    <2>1. t \in DOMAIN camera[f + 1]
      BY <1>2, <1>4 DEF Listing!SizeLines, Listing!Reached
    <2>2. s \in Nat /\ s < Len(camera[f + 1]) /\ t = s + 1
      BY <1>2, <2>1, CameraParts
    <2> HIDE DEF s
    <2>3. /\ camera[f + 1][s + 1].type # "unknown"
          /\ \A j \in 1..s : camera[f + 1][j].type # "range"
      BY <1>2, <1>4, <2>2, SizeLine
    <2>4. CASE p = <<f, s>>
      <3>1. p \in Seq(Nat) /\ Len(p) = 2 /\ p[1] = f /\ p[2] = s
        BY <1>2, <2>2, <2>4
      <3>2. QED
        BY <2>2, <2>3, <2>4, <3>1
    <2>5. ASSUME NEW m \in Listing!IntervalLines(k, t), p = <<f, s, m - 1>>
          PROVE  /\ p \in Seq(Nat) /\ Len(p) = 3 /\ p[1] = f /\ p[2] = s
                 /\ p[3] \in Nat
                 /\ camera[f + 1][s + 1].type = "discrete"
                 /\ p[3] < Len(camera[f + 1][s + 1].intervals)
                 /\ camera[f + 1][s + 1].intervals[p[3] + 1] \in {"discrete", "range"}
                 /\ \A j \in 1..p[3] : camera[f + 1][s + 1].intervals[j] \notin {"range", "unknown"}
      <3> DEFINE i == m - 1
      <3>1. m \in DOMAIN camera[f + 1][s + 1].intervals
        BY <1>2, <2>2, <2>5 DEF Listing!IntervalLines, Listing!Reached
      <3>2. s + 1 \in 1..Len(camera[f + 1])
        BY <1>2, <2>2, CameraParts
      <3>3. DOMAIN camera[f + 1][s + 1].intervals = 1..Len(camera[f + 1][s + 1].intervals)
            /\ Len(camera[f + 1][s + 1].intervals) \in Nat
        BY <1>2, <3>2, CameraParts
      <3>4. i \in Nat /\ i < Len(camera[f + 1][s + 1].intervals) /\ m = i + 1
        BY <3>1, <3>3
      <3> HIDE DEF i
      <3>5. /\ camera[f + 1][s + 1].type = "discrete"
            /\ camera[f + 1][s + 1].intervals[i + 1] \in {"discrete", "range"}
            /\ \A j \in 1..i : camera[f + 1][s + 1].intervals[j] \notin {"range", "unknown"}
        BY <1>2, <2>2, <2>5, <3>4, IntervalLine
      <3>6. p \in Seq(Nat) /\ Len(p) = 3 /\ p[1] = f /\ p[2] = s /\ p[3] = i
        BY <1>2, <2>2, <2>5, <3>4 DEF i
      <3>7. QED
        BY <3>4, <3>5, <3>6
    <2>6. CASE \E i \in Listing!IntervalLines(k, t) : p = <<f, t - 1, i - 1>>
      <3>1. PICK m \in Listing!IntervalLines(k, t) : p = <<f, s, m - 1>>
        BY <2>6 DEF s
      <3>2. QED
        BY <2>2, <2>3, <2>5, <3>1
    <2>7. QED
      BY <1>4, <2>4, <2>6 DEF s
<1>5. CASE p # <<f>>
  <2>1. PICK t \in Listing!SizeLines(k) :
           p = <<f, t - 1>> \/ \E i \in Listing!IntervalLines(k, t) : p = <<f, t - 1, i - 1>>
    BY <1>1, <1>5 DEF f
  <2>2. Facts
    BY <1>4, <2>1
  <2>3. QED
    BY <1>2, <2>2
<1>6. QED
  BY <1>3, <1>5

\* And when a path is a line.
LEMMA PathIsLine ==
    ASSUME Place, NEW f \in Nat, f < Len(camera)
    PROVE  /\ <<f>> \in Listing!Lines
           /\ \A s \in Nat :
                 /\ s < Len(camera[f + 1]) /\ camera[f + 1][s + 1].type # "unknown"
                 /\ \A j \in 1..s : camera[f + 1][j].type # "range"
                 => <<f, s>> \in Listing!Lines
           /\ \A s, i \in Nat :
                 /\ s < Len(camera[f + 1]) /\ camera[f + 1][s + 1].type = "discrete"
                 /\ \A j \in 1..s : camera[f + 1][j].type # "range"
                 /\ i < Len(camera[f + 1][s + 1].intervals)
                 /\ camera[f + 1][s + 1].intervals[i + 1] \in {"discrete", "range"}
                 /\ \A j \in 1..i : camera[f + 1][s + 1].intervals[j] \notin {"range", "unknown"}
                 => <<f, s, i>> \in Listing!Lines
<1> DEFINE k == f + 1
<1>1. k \in DOMAIN camera /\ k - 1 = f
  BY CameraParts
<1>2. <<f>> \in Listing!Lines
  BY <1>1, LineIs
<1>3. ASSUME NEW s \in Nat, s < Len(camera[f + 1]),
             camera[f + 1][s + 1].type # "unknown",
             \A j \in 1..s : camera[f + 1][j].type # "range"
      PROVE  <<f, s>> \in Listing!Lines
  <2>1. s + 1 \in Listing!SizeLines(k) /\ (s + 1) - 1 = s
    BY <1>3, SizeLine
  <2> HIDE DEF k
  <2>2. QED
    BY <1>1, <2>1, LineIs
<1>4. ASSUME NEW s \in Nat, NEW i \in Nat, s < Len(camera[f + 1]),
             camera[f + 1][s + 1].type = "discrete",
             \A j \in 1..s : camera[f + 1][j].type # "range",
             i < Len(camera[f + 1][s + 1].intervals),
             camera[f + 1][s + 1].intervals[i + 1] \in {"discrete", "range"},
             \A j \in 1..i : camera[f + 1][s + 1].intervals[j] \notin {"range", "unknown"}
      PROVE  <<f, s, i>> \in Listing!Lines
  <2>1. s + 1 \in Listing!SizeLines(k) /\ (s + 1) - 1 = s
    BY <1>4, SizeLine
  <2>2. i + 1 \in Listing!IntervalLines(k, s + 1) /\ (i + 1) - 1 = i
    BY <1>4, IntervalLine
  <2> HIDE DEF k
  <2>3. \E t \in Listing!SizeLines(k) :
           \E m \in Listing!IntervalLines(k, t) : <<f, s, i>> = <<k - 1, t - 1, m - 1>>
    BY <1>1, <2>1, <2>2
  <2>4. QED
    BY <1>1, <2>3, LineIs
<1>5. QED
  BY <1>2, <1>3, <1>4

\* The lines before the place come before the line that is printed there.
LEMMA PastBefore ==
    ASSUME ListShape, Place, NEW p \in Listing!Lines, Past(p)
    PROVE  /\ listPc = "format" => Listing!Before(p, <<fmt>>)
           /\ listPc = "size" => Listing!Before(p, <<fmt, size>>)
           /\ listPc = "interval" => Listing!Before(p, <<fmt, size, interval>>)
<1>1. /\ Len(p) \in {1, 2, 3} /\ DOMAIN p = 1..Len(p) /\ p[1] \in Nat
      /\ Len(p) > 1 => p[2] \in Nat
      /\ Len(p) > 2 => p[3] \in Nat
  BY LineParts
<1>2. fmt \in Nat /\ size \in Nat /\ interval \in Nat
  BY DEF ListShape
<1>3. CASE listPc = "format"
  <2>1. p[1] < fmt
    BY <1>3 DEF Past
  <2>2. 1 \in DOMAIN p \cap DOMAIN <<fmt>> /\ <<fmt>>[1] = fmt
    BY <1>1
  <2>3. \A j \in 1..(1 - 1) : p[j] = <<fmt>>[j]
    OBVIOUS
  <2>4. QED
    BY <1>3, <2>1, <2>2, <2>3 DEF Listing!Before
<1>4. CASE listPc = "size"
  <2> DEFINE q == <<fmt, size>>
  <2>1. q[1] = fmt /\ q[2] = size /\ Len(q) = 2 /\ DOMAIN q = 1..2
    OBVIOUS
  <2> HIDE DEF q
  <2>2. \/ p[1] < fmt
        \/ p[1] = fmt /\ Len(p) = 1
        \/ p[1] = fmt /\ Len(p) > 1 /\ p[2] < size
    BY <1>1, <1>4 DEF Past
  <2>3. Listing!Before(p, q)
    BY <1>1, <2>1, <2>2 DEF Listing!Before
  <2>4. QED
    BY <1>4, <2>3 DEF q
<1>5. CASE listPc = "interval"
  <2> DEFINE q == <<fmt, size, interval>>
  <2>1. q[1] = fmt /\ q[2] = size /\ q[3] = interval /\ Len(q) = 3 /\ DOMAIN q = 1..3
    OBVIOUS
  <2> HIDE DEF q
  <2>2. \/ p[1] < fmt
        \/ p[1] = fmt /\ Len(p) = 1
        \/ p[1] = fmt /\ Len(p) > 1 /\ p[2] < size
        \/ p[1] = fmt /\ Len(p) = 2 /\ p[2] = size
        \/ p[1] = fmt /\ Len(p) > 2 /\ p[2] = size /\ p[3] < interval
    BY <1>5 DEF Past
  <2>3. Listing!Before(p, q)
    BY <1>1, <2>1, <2>2 DEF Listing!Before
  <2>4. QED
    BY <1>5, <2>3 DEF q
<1>6. QED
  BY <1>3, <1>4, <1>5

\* The lines depend on the camera alone.
LEMMA SameLines == camera' = camera => Listing!Lines' = Listing!Lines
BY DEF Listing!Lines, Listing!SizeLines, Listing!IntervalLines, Listing!Reached

\* A step that prints the line at the place and passes it.
LEMMA PrintingStep ==
    ASSUME ListShape, Told, NEW q \in Listing!Lines, q \in Seq(Nat), Listing!PutLine(q),
           camera' = camera, disturbed' = disturbed, listPc \notin {"open", "query"},
           \A p \in Listing!Lines : Past(p) => Listing!Before(p, q),
           \A p \in Listing!Lines : Past(p)' <=> Past(p) \/ p = q
    PROVE  Told'
<1>1. printed \in Seq(Seq(Nat)) /\ Len(printed) \in Nat /\ DOMAIN printed = 1..Len(printed)
  BY DEF ListShape
<1>2. printed' = Append(printed, q)
  BY DEF Listing!PutLine
<1>3. /\ DOMAIN printed' = 1..Len(printed) + 1
      /\ printed'[Len(printed) + 1] = q
      /\ \A i \in 1..Len(printed) : printed'[i] = printed[i]
  BY <1>1, <1>2
<1>4. Listing!Lines' = Listing!Lines
  BY SameLines
<1>5. \A i \in DOMAIN printed' : printed'[i] \in Listing!Lines /\ Past(printed[i])'
  <2> SUFFICES ASSUME NEW i \in 1..Len(printed) + 1
               PROVE  printed'[i] \in Listing!Lines /\ Past(printed[i])'
    BY <1>3
  <2>1. CASE i \in 1..Len(printed)
    <3>1. printed[i] \in Listing!Lines /\ Past(printed[i])
      BY <1>1, <2>1 DEF Told
    <3>2. PICK p \in Listing!Lines : p = printed[i] /\ Past(p)
      BY <3>1
    <3>3. Past(p)'
      BY <3>2
    <3>4. QED
      BY <1>3, <2>1, <3>2, <3>3 DEF Past
  <2>2. CASE i = Len(printed) + 1
    <3>1. Past(q)'
      OBVIOUS
    <3>2. QED
      BY <1>3, <2>2, <3>1 DEF Past
  <2>3. QED
    BY <1>1, <2>1, <2>2
<1>6. \A i, j \in DOMAIN printed' : i < j => Listing!Before(printed'[i], printed'[j])
  <2> SUFFICES ASSUME NEW i \in 1..Len(printed) + 1, NEW j \in 1..Len(printed) + 1, i < j
               PROVE  Listing!Before(printed'[i], printed'[j])
    BY <1>3
  <2>1. i \in 1..Len(printed) /\ printed'[i] = printed[i]
    BY <1>1, <1>3
  <2>2. CASE j \in 1..Len(printed)
    BY <1>1, <1>3, <2>1, <2>2 DEF Told
  <2>3. CASE j = Len(printed) + 1
    <3>1. printed[i] \in Listing!Lines /\ Past(printed[i])
      BY <1>1, <2>1 DEF Told
    <3>2. QED
      BY <1>3, <2>1, <2>3, <3>1
  <2>4. j \in 1..Len(printed) \/ j = Len(printed) + 1
    <3>1. \A n \in Nat : \A k \in 1..n + 1 : k \in 1..n \/ k = n + 1
      OBVIOUS
    <3>2. QED
      BY <1>1, <3>1, Zenon
  <2>5. QED
    BY <2>2, <2>3, <2>4, Zenon
<1>7. ASSUME ~disturbed, NEW p \in Listing!Lines, Past(p)'
      PROVE  \E i \in DOMAIN printed' : printed'[i] = p
  <2>1. CASE p = q
    BY <1>1, <1>3, <2>1
  <2>2. CASE Past(p)
    <3>1. PICK i \in DOMAIN printed : printed[i] = p
      BY <1>7, <2>2 DEF Told
    <3>2. QED
      BY <1>1, <1>3, <3>1
  <2>3. QED
    BY <1>7, <2>1, <2>2
<1>8. QED
  BY <1>4, <1>5, <1>6, <1>7 DEF Told

\* A step that prints nothing passes no line, unless a list was cut short.
LEMMA SilentStep ==
    ASSUME Told, UNCHANGED <<printed, camera>>, disturbed => disturbed',
           listPc \notin {"open", "query"},
           \A p \in Listing!Lines : Past(p) => Past(p)',
           ~disturbed' => \A p \in Listing!Lines : Past(p)' => Past(p)
    PROVE  Told'
<1>1. Listing!Lines' = Listing!Lines
  BY SameLines
<1>2. \A i \in DOMAIN printed' : printed'[i] \in Listing!Lines /\ Past(printed[i])'
  <2> SUFFICES ASSUME NEW i \in DOMAIN printed
               PROVE  printed[i] \in Listing!Lines /\ Past(printed[i])'
    OBVIOUS
  <2>1. PICK p \in Listing!Lines : p = printed[i] /\ Past(p)
    BY DEF Told
  <2>2. Past(p)'
    BY <2>1
  <2>3. QED
    BY <2>1, <2>2 DEF Past
<1>3. \A i, j \in DOMAIN printed' : i < j => Listing!Before(printed'[i], printed'[j])
  BY DEF Told
<1>4. ASSUME ~disturbed', NEW p \in Listing!Lines, Past(p)'
      PROVE  \E i \in DOMAIN printed' : printed'[i] = p
  BY <1>4 DEF Told
<1>5. QED
  BY <1>1, <1>2, <1>3, <1>4 DEF Told

\* As long as nothing is printed and no line is passed.
LEMMA NothingTold ==
    ASSUME printed' = <<>>,
           listPc' \notin {"open", "query"} => \A p \in Listing!Lines' : ~Past(p)'
    PROVE  Told'
<1>1. DOMAIN printed' = {}
  OBVIOUS
<1>2. (\A i \in DOMAIN printed : printed[i] \in Listing!Lines /\ Past(printed[i]))'
  BY <1>1
<1>3. (\A i, j \in DOMAIN printed : i < j => Listing!Before(printed[i], printed[j]))'
  BY <1>1
<1>4. QED
  BY <1>2, <1>3 DEF Told

\* The value of disturbed after an ioctl that failed at an index.
LEMMA CutShort ==
    ASSUME disturbed \in BOOLEAN, NEW i \in Nat, NEW n \in Nat,
           disturbed' = (disturbed \/ i < n)
    PROVE  /\ disturbed' \in BOOLEAN
           /\ disturbed => disturbed'
           /\ ~disturbed' => n <= i
<1>1. CASE i < n
  BY <1>1
<1>2. CASE ~(i < n)
  BY <1>2
<1>3. QED
  BY <1>1, <1>2

\* The place a step of the listing leaves is one it may be at.
LEMMA OpenStep ==
    ASSUME ListShape, Place, Told, Listing!Open
    PROVE  Place' /\ Told'
<1>1. /\ listPc = "open" /\ UNCHANGED <<fmt, size, interval, printed, disturbed, listed>>
      /\ \/ listPc' = "query" /\ camera' \in Cameras
         \/ listPc' = "done" /\ camera' = camera
  BY DEF Listing!Open, Listing!loops
<1>2. fmt = 0 /\ ~listed /\ printed = <<>> /\ DOMAIN printed' = {}
  BY <1>1 DEF ListShape
<1>3. camera' \in Seq(Seq([type : Listing!SizeTypes, intervals : Seq(Listing!IntervalTypes)]))
  BY <1>1, DevicesAssumption DEF Place
<1>4. Place'
  BY <1>1, <1>2, <1>3 DEF Place
<1>5. CASE listPc' = "query"
  BY <1>1, <1>2, <1>4, <1>5, NothingTold
<1>6. CASE listPc' = "done" /\ camera' = camera
  <2>1. ASSUME NEW p \in Listing!Lines PROVE ~Past(p)'
    BY <1>1, <1>2, <1>6, LineParts DEF Past
  <2>2. Listing!Lines' = Listing!Lines
    BY <1>6, SameLines
  <2>3. Told'
    BY <1>1, <1>2, <2>1, <2>2, NothingTold
  <2>4. QED
    BY <1>4, <2>3
<1>7. QED
  BY <1>1, <1>5, <1>6

LEMMA QueryStep ==
    ASSUME ListShape, Place, Told, Listing!QueryCapabilities
    PROVE  Place' /\ Told'
<1>1. /\ listPc = "query"
      /\ UNCHANGED <<camera, fmt, size, interval, printed, disturbed, listed>>
      /\ listPc' \in {"format", "done"}
  BY DEF Listing!QueryCapabilities, Listing!loops
<1>2. fmt = 0 /\ ~listed /\ printed = <<>> /\ DOMAIN printed' = {}
  BY <1>1 DEF ListShape
<1>3. Place'
  BY <1>1, <1>2 DEF Place
<1>4. ASSUME NEW p \in Listing!Lines PROVE ~Past(p)'
  BY <1>1, <1>2, LineParts DEF Past
<1>5. Listing!Lines' = Listing!Lines
  BY <1>1, SameLines
<1>6. Told'
  BY <1>1, <1>2, <1>4, <1>5, NothingTold
<1>7. QED
  BY <1>3, <1>6

LEMMA NextFormatStep ==
    ASSUME ListShape, Place, Told, Listing!NextFormat
    PROVE  Place' /\ Told'
<1>1. /\ listPc = "format" /\ fmt < Len(camera) /\ Listing!PutLine(<<fmt>>)
      /\ size' = 0 /\ listPc' = "size"
      /\ UNCHANGED <<camera, fmt, interval, disturbed, listed>>
  BY DEF Listing!NextFormat
<1>2. fmt \in Nat /\ size \in Nat /\ interval \in Nat
  BY DEF ListShape
<1>3. <<fmt>> \in Listing!Lines /\ <<fmt>> \in Seq(Nat)
  BY <1>1, <1>2, PathIsLine
<1>4. Place'
  <2>1. Len(camera[fmt + 1]) \in Nat
    BY <1>1, <1>2, CameraParts
  <2>2. QED
    BY <1>1, <2>1 DEF Place
<1>5. ASSUME NEW p \in Listing!Lines PROVE Past(p)' <=> Past(p) \/ p = <<fmt>>
  <2>1. /\ Len(p) \in {1, 2, 3} /\ p[1] \in Nat
        /\ Len(p) = 1 => p = <<p[1]>>
        /\ Len(p) > 1 => p[2] \in Nat
    BY LineParts
  <2>2. Len(<<fmt>>) = 1 /\ <<fmt>>[1] = fmt
    OBVIOUS
  <2>3. Past(p) <=> p[1] < fmt
    BY <1>1 DEF Past
  <2>4. Past(p)' <=> p[1] < fmt \/ (p[1] = fmt /\ Len(p) = 1)
    <3>1. Past(p)' <=>
             \/ p[1] < fmt
             \/ p[1] = fmt /\ (Len(p) = 1 \/ (Len(p) > 1 /\ p[2] < 0))
      BY <1>1 DEF Past
    <3>2. QED
      BY <2>1, <3>1
  <2>5. p = <<fmt>> <=> (p[1] = fmt /\ Len(p) = 1)
    BY <2>1, <2>2
  <2>6. QED
    BY <2>3, <2>4, <2>5
<1>6. \A p \in Listing!Lines : Past(p) => Listing!Before(p, <<fmt>>)
  BY <1>1, PastBefore
<1>7. Told'
  BY <1>1, <1>3, <1>5, <1>6, PrintingStep
<1>8. QED
  BY <1>4, <1>7

LEMMA FormatsEndStep ==
    ASSUME ListShape, Place, Told, Listing!FormatsEnd
    PROVE  Place' /\ Told'
<1>1. /\ listPc = "format" /\ disturbed' = (disturbed \/ fmt < Len(camera))
      /\ listPc' = "done"
      /\ UNCHANGED <<camera, fmt, size, interval, printed>>
  BY DEF Listing!FormatsEnd, Listing!loops
<1>2. camera \in Seq(Seq([type : Listing!SizeTypes, intervals : Seq(Listing!IntervalTypes)]))
  BY DEF Place
<1>3. Len(camera) \in Nat /\ fmt \in Nat
  BY <1>2 DEF ListShape
<1>4. disturbed' \in BOOLEAN /\ (~disturbed' => Len(camera') <= fmt')
  BY <1>1, <1>3, CutShort DEF Place
<1>5. Place'
  BY <1>1, <1>2, <1>4 DEF Place
<1>6. ASSUME NEW p \in Listing!Lines PROVE Past(p)' <=> Past(p)
  BY <1>1 DEF Past
<1>7. Told'
  BY <1>1, <1>6, SilentStep
<1>8. QED
  BY <1>5, <1>7

\* Asking for a size beyond a range, or for the intervals of a size that is
\* not discrete, gives no line.
LEMMA NextSizeStep ==
    ASSUME ListShape, Place, Told, Listing!NextSize
    PROVE  Place' /\ Told'
<1> DEFINE sizes == camera[fmt + 1]
           q == <<fmt, size>>
<1>1. /\ listPc = "size" /\ size < Len(sizes)
      /\ UNCHANGED <<camera, disturbed, listed>>
      /\ \/ /\ sizes[size + 1].type = "discrete"
            /\ Listing!PutLine(q) /\ interval' = 0 /\ listPc' = "interval"
            /\ UNCHANGED <<fmt, size>>
         \/ /\ sizes[size + 1].type = "range"
            /\ Listing!PutLine(q) /\ fmt' = fmt + 1 /\ listPc' = "format"
            /\ UNCHANGED <<size, interval>>
         \/ /\ sizes[size + 1].type # "discrete" /\ sizes[size + 1].type # "range"
            /\ size' = size + 1 /\ UNCHANGED <<listPc, fmt, interval, printed>>
  BY DEF Listing!NextSize, Listing!Sizes
<1>2. /\ fmt \in Nat /\ size \in Nat /\ interval \in Nat
      /\ fmt < Len(camera)
      /\ \A j \in 1..size : sizes[j].type # "range"
  BY <1>1 DEF ListShape, Place
<1>3. /\ size + 1 \in 1..Len(sizes)
      /\ sizes[size + 1].type \in {"discrete", "range", "unknown"}
      /\ Len(sizes) \in Nat /\ Len(sizes[size + 1].intervals) \in Nat
  BY <1>1, <1>2, CameraParts
<1>4. q[1] = fmt /\ q[2] = size /\ Len(q) = 2 /\ q \in Seq(Nat)
  BY <1>2
<1> HIDE DEF sizes, q
<1>5. \A p \in Listing!Lines : Past(p) => Listing!Before(p, q)
  BY <1>1, PastBefore DEF q
<1>6. sizes[size + 1].type # "unknown" => q \in Listing!Lines
  BY <1>1, <1>2, PathIsLine DEF sizes, q
<1>7. ASSUME NEW p \in Listing!Lines
      PROVE  /\ Len(p) \in {1, 2, 3} /\ p[1] \in Nat
             /\ Len(p) > 1 => p[2] \in Nat
             /\ Len(p) > 2 => p[3] \in Nat
             /\ Past(p) <=>
                  \/ p[1] < fmt
                  \/ p[1] = fmt /\ (Len(p) = 1 \/ (Len(p) > 1 /\ p[2] < size))
             /\ p = q <=> (Len(p) = 2 /\ p[1] = fmt /\ p[2] = size)
             /\ p[1] = fmt /\ Len(p) > 1 =>
                  /\ sizes[p[2] + 1].type # "unknown"
                  /\ \A j \in 1..p[2] : sizes[j].type # "range"
             /\ p[1] = fmt /\ Len(p) > 2 => sizes[p[2] + 1].type = "discrete"
  <2>1. /\ Len(p) \in {1, 2, 3} /\ p[1] \in Nat
        /\ Len(p) > 1 => p[2] \in Nat
        /\ Len(p) > 2 => p[3] \in Nat
        /\ Len(p) = 2 => p = <<p[1], p[2]>>
    BY LineParts
  <2>2. ASSUME p[1] = fmt, Len(p) > 1
        PROVE  /\ sizes[p[2] + 1].type # "unknown"
               /\ \A j \in 1..p[2] : sizes[j].type # "range"
               /\ Len(p) > 2 => sizes[p[2] + 1].type = "discrete"
    <3>1. camera[p[1] + 1] = sizes
      BY <2>2 DEF sizes
    <3>2. /\ camera[p[1] + 1][p[2] + 1].type # "unknown"
          /\ \A j \in 1..p[2] : camera[p[1] + 1][j].type # "range"
          /\ Len(p) > 2 => camera[p[1] + 1][p[2] + 1].type = "discrete"
      BY <2>2, LineParts
    <3>3. QED
      BY <3>1, <3>2
  <2>3. Past(p) <=>
          \/ p[1] < fmt
          \/ p[1] = fmt /\ (Len(p) = 1 \/ (Len(p) > 1 /\ p[2] < size))
    BY <1>1 DEF Past
  <2>4. p = q <=> (Len(p) = 2 /\ p[1] = fmt /\ p[2] = size)
    BY <1>4, <2>1 DEF q
  <2>5. QED
    BY <2>1, <2>2, <2>3, <2>4
<1>8. CASE sizes[size + 1].type = "discrete"
  <2>1. /\ Listing!PutLine(q) /\ interval' = 0 /\ listPc' = "interval"
        /\ UNCHANGED <<camera, disturbed, listed, fmt, size>>
    BY <1>1, <1>8
  <2>2. Place'
    BY <1>1, <1>2, <1>3, <1>8, <2>1 DEF Place, sizes
  <2>3. ASSUME NEW p \in Listing!Lines PROVE Past(p)' <=> Past(p) \/ p = q
    <3>1. Past(p)' <=>
            \/ p[1] < fmt
            \/ /\ p[1] = fmt
               /\ \/ Len(p) = 1 \/ (Len(p) > 1 /\ p[2] < size)
                  \/ (Len(p) = 2 /\ p[2] = size)
                  \/ (Len(p) > 2 /\ p[2] = size /\ p[3] < 0)
      BY <2>1 DEF Past
    <3>2. /\ Len(p) \in {1, 2, 3} /\ p[1] \in Nat
          /\ Len(p) > 2 => p[3] \in Nat
          /\ Past(p) <=>
               \/ p[1] < fmt
               \/ p[1] = fmt /\ (Len(p) = 1 \/ (Len(p) > 1 /\ p[2] < size))
          /\ p = q <=> (Len(p) = 2 /\ p[1] = fmt /\ p[2] = size)
      BY <1>7
    <3>3. QED
      BY <1>2, <3>1, <3>2
  <2>4. Told'
    BY <1>1, <1>4, <1>5, <1>6, <1>8, <2>1, <2>3, PrintingStep
  <2>5. QED
    BY <2>2, <2>4
<1>9. CASE sizes[size + 1].type = "range"
  <2>1. /\ Listing!PutLine(q) /\ fmt' = fmt + 1 /\ listPc' = "format"
        /\ UNCHANGED <<camera, disturbed, listed, size, interval>>
    BY <1>1, <1>9
  <2>2. Place'
    BY <1>1, <1>2, <2>1 DEF Place
  <2>3. ASSUME NEW p \in Listing!Lines PROVE Past(p)' <=> Past(p) \/ p = q
    <3>1. Past(p)' <=> p[1] < fmt + 1
      BY <2>1 DEF Past
    <3>2. p[1] = fmt /\ Len(p) > 1 => p[2] <= size
      BY <1>2, <1>7, <1>9
    <3>3. p[1] = fmt /\ Len(p) > 2 => p[2] # size
      BY <1>7, <1>9
    <3>4. /\ Len(p) \in {1, 2, 3} /\ p[1] \in Nat
          /\ Len(p) > 1 => p[2] \in Nat
          /\ Past(p) <=>
               \/ p[1] < fmt
               \/ p[1] = fmt /\ (Len(p) = 1 \/ (Len(p) > 1 /\ p[2] < size))
          /\ p = q <=> (Len(p) = 2 /\ p[1] = fmt /\ p[2] = size)
      BY <1>7
    <3>5. CASE p[1] = fmt
      <4>1. Past(p)'
        BY <1>2, <3>1, <3>5
      <4>2. Len(p) = 1 \/ p[2] < size \/ (Len(p) = 2 /\ p[2] = size)
        <5>1. CASE Len(p) = 2
          BY <1>2, <3>2, <3>4, <3>5, <5>1
        <5>2. CASE Len(p) = 3
          BY <1>2, <3>2, <3>3, <3>4, <3>5, <5>2
        <5>3. QED
          BY <3>4, <5>1, <5>2
      <4>3. Len(p) = 1 \/ (Len(p) > 1 /\ p[2] < size) => Past(p)
        BY <3>4, <3>5
      <4>4. Len(p) = 1 \/ Len(p) > 1
        BY <3>4
      <4>5. Len(p) = 2 /\ p[2] = size => p = q
        BY <3>4, <3>5
      <4>6. QED
        BY <4>1, <4>2, <4>3, <4>4, <4>5
    <3>6. CASE p[1] # fmt
      BY <1>2, <3>1, <3>4, <3>6
    <3>7. QED
      BY <3>5, <3>6
  <2>4. Told'
    BY <1>1, <1>4, <1>5, <1>6, <1>9, <2>1, <2>3, PrintingStep
  <2>5. QED
    BY <2>2, <2>4
<1>10. CASE sizes[size + 1].type = "unknown"
  <2>1. size' = size + 1 /\ UNCHANGED <<camera, disturbed, listed, listPc, fmt, interval, printed>>
    BY <1>1, <1>10
  <2>2. \A j \in 1..size + 1 : sizes[j].type # "range"
    BY <1>2, <1>10
  <2>3. Place'
    BY <1>1, <1>2, <1>3, <2>1, <2>2 DEF Place, sizes
  <2>4. ASSUME NEW p \in Listing!Lines PROVE Past(p)' <=> Past(p)
    <3>1. Past(p)' <=>
            \/ p[1] < fmt
            \/ p[1] = fmt /\ (Len(p) = 1 \/ (Len(p) > 1 /\ p[2] < size + 1))
      BY <1>1, <2>1 DEF Past
    <3>2. p[1] = fmt /\ Len(p) > 1 => p[2] # size
      BY <1>7, <1>10
    <3>3. QED
      BY <1>2, <1>7, <3>1, <3>2
  <2>5. Told'
    BY <1>1, <2>1, <2>4, SilentStep
  <2>6. QED
    BY <2>3, <2>5
<1>11. QED
  BY <1>3, <1>8, <1>9, <1>10

LEMMA SizesEndStep ==
    ASSUME ListShape, Place, Told, Listing!SizesEnd
    PROVE  Place' /\ Told'
<1> DEFINE sizes == camera[fmt + 1]
<1>1. /\ listPc = "size" /\ disturbed' = (disturbed \/ size < Len(sizes))
      /\ fmt' = fmt + 1 /\ listPc' = "format"
      /\ UNCHANGED <<camera, size, interval, printed, listed>>
  BY DEF Listing!SizesEnd, Listing!Sizes
<1>2. fmt \in Nat /\ size \in Nat /\ fmt < Len(camera) /\ disturbed \in BOOLEAN
  BY <1>1 DEF ListShape, Place
<1>3. Len(sizes) \in Nat
  BY <1>2, CameraParts
<1> HIDE DEF sizes
<1>4. /\ disturbed' \in BOOLEAN
      /\ disturbed => disturbed'
      /\ ~disturbed' => Len(sizes) <= size
  BY <1>1, <1>2, <1>3, CutShort
<1>5. Place'
  BY <1>1, <1>4 DEF Place
<1>6. ASSUME NEW p \in Listing!Lines
      PROVE  /\ Past(p) => Past(p)'
             /\ ~disturbed' /\ Past(p)' => Past(p)
  <2>1. /\ Len(p) \in {1, 2, 3} /\ p[1] \in Nat
        /\ Len(p) > 1 => p[2] \in Nat
        /\ p[1] = fmt /\ Len(p) > 1 => p[2] < Len(sizes)
    BY LineParts DEF sizes
  <2>2. Past(p) <=>
          \/ p[1] < fmt
          \/ p[1] = fmt /\ (Len(p) = 1 \/ (Len(p) > 1 /\ p[2] < size))
    BY <1>1 DEF Past
  <2>3. Past(p)' <=> p[1] < fmt + 1
    BY <1>1 DEF Past
  <2>4. QED
    BY <1>2, <1>3, <1>4, <2>1, <2>2, <2>3
<1>7. Told'
  BY <1>1, <1>4, <1>6, SilentStep
<1>8. QED
  BY <1>5, <1>7

LEMMA NextIntervalStep ==
    ASSUME ListShape, Place, Told, Listing!NextInterval
    PROVE  Place' /\ Told'
<1> DEFINE sizes == camera[fmt + 1]
           types == sizes[size + 1].intervals
           q == <<fmt, size, interval>>
           goesOn == types[interval + 1] \in {"discrete", "norate"}
           hasLine == types[interval + 1] \in {"discrete", "range"}
<1>1. /\ listPc = "interval" /\ interval < Len(types)
      /\ hasLine => Listing!PutLine(q)
      /\ ~hasLine => printed' = printed
      /\ UNCHANGED <<camera, fmt, disturbed, listed>>
      /\ goesOn => interval' = interval + 1 /\ UNCHANGED <<listPc, size>>
      /\ ~goesOn => size' = size + 1 /\ listPc' = "size" /\ UNCHANGED interval
  BY DEF Listing!NextInterval, Listing!PrintInterval, Listing!Intervals, Listing!Sizes
<1>2. /\ fmt \in Nat /\ size \in Nat /\ interval \in Nat
      /\ fmt < Len(camera) /\ size < Len(sizes)
      /\ sizes[size + 1].type = "discrete"
      /\ \A j \in 1..size : sizes[j].type # "range"
      /\ \A j \in 1..interval : types[j] \notin {"range", "unknown"}
  BY <1>1 DEF ListShape, Place
<1>3. Len(sizes) \in Nat /\ size + 1 \in 1..Len(sizes)
  BY <1>2, CameraParts
<1>4. Len(types) \in Nat /\ DOMAIN types = 1..Len(types) /\ interval + 1 \in DOMAIN types
  BY <1>1, <1>2, <1>3, CameraParts
<1>5. types[interval + 1] \in {"discrete", "norate", "range", "unknown"}
  BY <1>2, <1>3, <1>4, CameraParts DEF Listing!IntervalTypes
<1>6. q[1] = fmt /\ q[2] = size /\ q[3] = interval /\ Len(q) = 3 /\ q \in Seq(Nat)
  BY <1>2
<1>7. hasLine => q \in Listing!Lines
  BY <1>1, <1>2, PathIsLine
<1>8. \A p \in Listing!Lines : Past(p) => Listing!Before(p, q)
  BY <1>1, PastBefore
<1> HIDE DEF sizes, types, q, hasLine, goesOn
<1>9. ASSUME NEW p \in Listing!Lines
      PROVE  /\ Len(p) \in {1, 2, 3} /\ p[1] \in Nat
             /\ Len(p) > 1 => p[2] \in Nat
             /\ Len(p) > 2 => p[3] \in Nat
             /\ Past(p) <=>
                  \/ p[1] < fmt
                  \/ /\ p[1] = fmt
                     /\ \/ Len(p) = 1
                        \/ (Len(p) > 1 /\ p[2] < size)
                        \/ (Len(p) = 2 /\ p[2] = size)
                        \/ (Len(p) > 2 /\ p[2] = size /\ p[3] < interval)
             /\ p = q <=> (Len(p) = 3 /\ p[1] = fmt /\ p[2] = size /\ p[3] = interval)
             /\ p[1] = fmt /\ Len(p) > 2 /\ p[2] = size =>
                   /\ types[p[3] + 1] \in {"discrete", "range"}
                   /\ \A j \in 1..p[3] : types[j] \notin {"range", "unknown"}
  <2>1. /\ Len(p) \in {1, 2, 3} /\ p[1] \in Nat
        /\ Len(p) > 1 => p[2] \in Nat
        /\ Len(p) > 2 => p[3] \in Nat /\ p = <<p[1], p[2], p[3]>>
    BY LineParts
  <2>2. Past(p) <=>
          \/ p[1] < fmt
          \/ /\ p[1] = fmt
             /\ \/ Len(p) = 1
                \/ (Len(p) > 1 /\ p[2] < size)
                \/ (Len(p) = 2 /\ p[2] = size)
                \/ (Len(p) > 2 /\ p[2] = size /\ p[3] < interval)
    BY <1>1 DEF Past
  <2>3. p = q <=> (Len(p) = 3 /\ p[1] = fmt /\ p[2] = size /\ p[3] = interval)
    BY <1>6, <2>1 DEF q
  <2>4. ASSUME p[1] = fmt, Len(p) > 2, p[2] = size
        PROVE  /\ types[p[3] + 1] \in {"discrete", "range"}
               /\ \A j \in 1..p[3] : types[j] \notin {"range", "unknown"}
    <3>1. camera[p[1] + 1][p[2] + 1].intervals = types
      BY <2>4 DEF sizes, types
    <3>2. LET intervals == camera[p[1] + 1][p[2] + 1].intervals
          IN  /\ intervals[p[3] + 1] \in {"discrete", "range"}
              /\ \A j \in 1..p[3] : intervals[j] \notin {"range", "unknown"}
      BY <2>4, LineParts
    <3>3. QED
      BY <3>1, <3>2
  <2>5. QED
    BY <2>1, <2>2, <2>3, <2>4
\* The lines passed: all that come before, and that of the interval if it has one.
<1>10. ASSUME goesOn
       PROVE  /\ Place' /\ UNCHANGED <<camera, disturbed>>
              /\ \A p \in Listing!Lines : Past(p)' <=> Past(p) \/ (hasLine /\ p = q)
  <2>1. /\ interval' = interval + 1
        /\ UNCHANGED <<camera, fmt, size, listPc, disturbed, listed>>
        /\ types[interval + 1] \in {"discrete", "norate"}
    BY <1>1, <1>10 DEF goesOn
  <2>2. \A j \in 1..interval + 1 : types[j] \notin {"range", "unknown"}
    BY <1>2, <2>1
  <2>3. Place'
    BY <1>1, <1>2, <1>4, <2>1, <2>2 DEF Place, sizes, types
  <2>4. ASSUME NEW p \in Listing!Lines
        PROVE  Past(p)' <=> Past(p) \/ (hasLine /\ p = q)
    <3>1. Past(p)' <=>
            \/ p[1] < fmt
            \/ /\ p[1] = fmt
               /\ \/ Len(p) = 1
                  \/ (Len(p) > 1 /\ p[2] < size)
                  \/ (Len(p) = 2 /\ p[2] = size)
                  \/ (Len(p) > 2 /\ p[2] = size /\ p[3] < interval + 1)
      BY <1>1, <2>1 DEF Past
    <3>2. CASE p[1] = fmt /\ Len(p) = 3 /\ p[2] = size
      <4>1. p[3] \in Nat /\ types[p[3] + 1] \in {"discrete", "range"}
        BY <1>9, <3>2
      <4>2. p[3] = interval => hasLine
        BY <4>1 DEF hasLine
      <4>3. p = q <=> p[3] = interval
        BY <1>9, <3>2
      <4>4. Past(p) <=> p[3] < interval
        BY <1>2, <1>9, <3>2
      <4>5. Past(p)' <=> p[3] < interval + 1
        BY <1>2, <3>1, <3>2
      <4>6. QED
        BY <1>2, <4>1, <4>2, <4>3, <4>4, <4>5
    <3>3. CASE ~(p[1] = fmt /\ Len(p) = 3 /\ p[2] = size)
      BY <1>9, <3>1, <3>3
    <3>4. QED
      BY <3>2, <3>3
  <2>5. QED
    BY <2>1, <2>3, <2>4
<1>11. ASSUME ~goesOn
       PROVE  /\ Place' /\ UNCHANGED <<camera, disturbed>>
              /\ \A p \in Listing!Lines : Past(p)' <=> Past(p) \/ (hasLine /\ p = q)
  <2>1. /\ size' = size + 1 /\ listPc' = "size"
        /\ UNCHANGED <<camera, fmt, interval, disturbed, listed>>
        /\ types[interval + 1] \in {"range", "unknown"}
    BY <1>1, <1>5, <1>11 DEF goesOn
  <2>2. \A j \in 1..size + 1 : sizes[j].type # "range"
    BY <1>2
  <2>3. Place'
    BY <1>1, <1>2, <1>3, <2>1, <2>2 DEF Place, sizes
  <2>4. ASSUME NEW p \in Listing!Lines
        PROVE  Past(p)' <=> Past(p) \/ (hasLine /\ p = q)
    <3>1. Past(p)' <=>
            \/ p[1] < fmt
            \/ p[1] = fmt /\ (Len(p) = 1 \/ (Len(p) > 1 /\ p[2] < size + 1))
      BY <2>1 DEF Past
    <3>2. CASE p[1] = fmt /\ Len(p) = 3 /\ p[2] = size
      <4>1. /\ p[3] \in Nat /\ types[p[3] + 1] \in {"discrete", "range"}
            /\ \A j \in 1..p[3] : types[j] \notin {"range", "unknown"}
        BY <1>9, <3>2
      <4>2. p[3] = interval => hasLine
        BY <4>1 DEF hasLine
      <4>3. interval + 1 \notin 1..p[3]
        BY <2>1, <4>1
      <4>4. p[3] <= interval
        BY <1>2, <4>1, <4>3
      <4>5. p = q <=> p[3] = interval
        BY <1>9, <3>2
      <4>6. (Past(p) <=> p[3] < interval) /\ Past(p)'
        BY <1>2, <1>9, <3>1, <3>2
      <4>7. QED
        BY <1>2, <4>1, <4>2, <4>4, <4>5, <4>6
    <3>3. CASE ~(p[1] = fmt /\ Len(p) = 3 /\ p[2] = size)
      BY <1>2, <1>9, <3>1, <3>3
    <3>4. QED
      BY <3>2, <3>3
  <2>5. QED
    BY <2>1, <2>3, <2>4
<1>12. /\ Place' /\ UNCHANGED <<camera, disturbed>>
       /\ \A p \in Listing!Lines : Past(p)' <=> Past(p) \/ (hasLine /\ p = q)
  BY <1>10, <1>11
<1>13. CASE hasLine
  <2>1. \A p \in Listing!Lines : Past(p)' <=> Past(p) \/ p = q
    BY <1>12, <1>13
  <2>2. Told'
    BY <1>1, <1>6, <1>7, <1>8, <1>12, <1>13, <2>1, PrintingStep
  <2>3. QED
    BY <1>12, <2>2
<1>14. CASE ~hasLine
  <2>1. \A p \in Listing!Lines : Past(p)' <=> Past(p)
    BY <1>12, <1>14
  <2>2. Told'
    BY <1>1, <1>12, <1>14, <2>1, SilentStep
  <2>3. QED
    BY <1>12, <2>2
<1>15. QED
  BY <1>13, <1>14

LEMMA IntervalsEndStep ==
    ASSUME ListShape, Place, Told, Listing!IntervalsEnd
    PROVE  Place' /\ Told'
<1> DEFINE sizes == camera[fmt + 1]
           types == sizes[size + 1].intervals
<1>1. /\ listPc = "interval" /\ disturbed' = (disturbed \/ interval < Len(types))
      /\ size' = size + 1 /\ listPc' = "size"
      /\ UNCHANGED <<camera, fmt, interval, printed, listed>>
  BY DEF Listing!IntervalsEnd, Listing!Intervals, Listing!Sizes
<1>2. /\ fmt \in Nat /\ size \in Nat /\ interval \in Nat /\ disturbed \in BOOLEAN
      /\ fmt < Len(camera) /\ size < Len(sizes)
      /\ sizes[size + 1].type = "discrete"
      /\ \A j \in 1..size : sizes[j].type # "range"
  BY <1>1 DEF ListShape, Place
<1>3. Len(sizes) \in Nat /\ size + 1 \in 1..Len(sizes)
  BY <1>2, CameraParts
<1>4. Len(types) \in Nat
  BY <1>2, <1>3, CameraParts
<1> HIDE DEF sizes, types
<1>5. /\ disturbed' \in BOOLEAN
      /\ disturbed => disturbed'
      /\ ~disturbed' => Len(types) <= interval
  BY <1>1, <1>2, <1>4, CutShort
<1>6. Place'
  <2>1. \A j \in 1..size + 1 : sizes[j].type # "range"
    BY <1>2
  <2>2. QED
    BY <1>1, <1>2, <1>3, <1>5, <2>1 DEF Place, sizes
<1>7. ASSUME NEW p \in Listing!Lines
      PROVE  /\ Past(p) => Past(p)'
             /\ ~disturbed' /\ Past(p)' => Past(p)
  <2>1. /\ Len(p) \in {1, 2, 3} /\ p[1] \in Nat
        /\ Len(p) > 1 => p[2] \in Nat
        /\ Len(p) > 2 => p[3] \in Nat
        /\ p[1] = fmt /\ Len(p) > 2 /\ p[2] = size => p[3] < Len(types)
    BY LineParts DEF sizes, types
  <2>2. Past(p) <=>
          \/ p[1] < fmt
          \/ /\ p[1] = fmt
             /\ \/ Len(p) = 1
                \/ (Len(p) > 1 /\ p[2] < size)
                \/ (Len(p) = 2 /\ p[2] = size)
                \/ (Len(p) > 2 /\ p[2] = size /\ p[3] < interval)
    BY <1>1 DEF Past
  <2>3. Past(p)' <=>
          \/ p[1] < fmt
          \/ p[1] = fmt /\ (Len(p) = 1 \/ (Len(p) > 1 /\ p[2] < size + 1))
    BY <1>1 DEF Past
  <2>4. CASE p[1] = fmt /\ Len(p) = 3 /\ p[2] = size
    <3>1. p[3] \in Nat /\ p[3] < Len(types)
      BY <2>1, <2>4
    <3>2. (Past(p) <=> p[3] < interval) /\ Past(p)'
      BY <1>2, <2>2, <2>3, <2>4
    <3>3. QED
      BY <1>2, <1>4, <1>5, <3>1, <3>2
  <2>5. CASE ~(p[1] = fmt /\ Len(p) = 3 /\ p[2] = size)
    BY <1>2, <2>1, <2>2, <2>3, <2>5
  <2>6. QED
    BY <2>4, <2>5
<1>8. Told'
  BY <1>1, <1>5, <1>7, SilentStep
<1>9. QED
  BY <1>6, <1>8

\* The step of a listing, and of the process.
LEMMA TellingStep ==
    ASSUME ListShape, Place, Told, Listing!Next
    PROVE  Place' /\ Told'
BY OpenStep, QueryStep, NextFormatStep, FormatsEndStep, NextSizeStep, SizesEndStep,
   NextIntervalStep, IntervalsEndStep DEF Listing!Next

LEMMA PlaceAtInit == ProgramInit => Place /\ Told
<1> SUFFICES ASSUME ProgramInit PROVE Place /\ Told
  OBVIOUS
<1>1. Listing!Init
  BY DEF ProgramInit
<1>2. camera = <<>> /\ listPc = "open" /\ fmt = 0 /\ printed = <<>> /\ ~disturbed
      /\ disturbed \in BOOLEAN /\ ~listed
  BY <1>1 DEF Listing!Init
<1>3. Place
  BY <1>2 DEF Place
<1>4. DOMAIN printed = {}
  BY <1>2
<1>5. QED
  BY <1>2, <1>3, <1>4 DEF Told

LEMMA PlaceInvariance == ProgramSpec => [](Place /\ Told)
<1>1. ASSUME PInv, Place, Told, [ProgramNext]_programVars
      PROVE  Place' /\ Told'
  <2>1. CASE List
    BY <1>1, <2>1, TellingStep DEF List, PInv
  <2>2. CASE UNCHANGED listVars
    <3>1. Listing!Lines' = Listing!Lines
      BY <2>2, SameLines DEF listVars
    <3>2. Place'
      BY <1>1, <2>2 DEF Place, listVars
    <3>3. Told'
      BY <1>1, <2>2, <3>1 DEF Told, Past, listVars
    <3>4. QED
      BY <3>2, <3>3
  <2>3. List \/ UNCHANGED listVars
    BY <1>1 DEF ProgramNext, ProgramStep, ReadOption, ParseReturns, ListReturns, DrawTest, TestReturns,
                CaptureReturns, CallDecoder, DecodeStep, DecoderReturns, InCapture, Ended,
                programVars
  <2>4. QED
    BY <2>1, <2>2, <2>3
<1>2. QED
  BY <1>1, PlaceAtInit, ProcessInvariance, PTL DEF ProgramSpec

(***************************************************************************)
(* Whatever a camera offers and wherever an ioctl fails, every line        *)
(* printed is one of the camera's, none is printed twice or out of order,  *)
(* and a successful listing no ioctl cut short has a line for everything   *)
(* that is asked for and is a format, a size of a known type, or an        *)
(* interval that is a rate or a range.                                     *)
(***************************************************************************)
THEOREM ListingIsComplete == ProgramSpec => []ListsWhatTheCameraOffers
<1>1. ASSUME ListShape, Place, Told PROVE ListsWhatTheCameraOffers
  <2>1. ASSUME listed, ~disturbed, NEW p \in Listing!Lines
        PROVE  \E i \in DOMAIN printed : printed[i] = p
    <3>1. Len(camera) <= fmt /\ listPc = "done"
      BY <1>1, <2>1 DEF Place
    <3>2. p[1] \in Nat /\ p[1] < Len(camera)
      BY <1>1, LineParts
    <3>3. Len(camera) \in Nat /\ fmt \in Nat
      BY <1>1 DEF Place, ListShape
    <3>4. Past(p)
      BY <3>1, <3>2, <3>3 DEF Past
    <3>5. QED
      BY <1>1, <2>1, <3>1, <3>4 DEF Told
  <2>2. listed /\ ~disturbed => Listing!Lines = { printed[i] : i \in DOMAIN printed }
    BY <1>1, <2>1 DEF Told
  <2>3. QED
    BY <1>1, <2>2 DEF Told, ListsWhatTheCameraOffers, Listing!PrintsWhatTheCameraOffers
<1>2. QED
  BY <1>1, ProcessInvariance, PlaceInvariance, PTL DEF PInv

-----------------------------------------------------------------------------
(* The test pattern                                                        *)

Pixels == INSTANCE FramebufferPixelsProofs

\* The framebuffers that can be drawn on have the usual formats of a pixel.
UsualScreens ==
    \A p \in Panels : p.bytes \in {2, 4} => Pixels!IsRgb565(p) \/ Pixels!IsRgb888(p)

\* The mapping is that of the panel, cleared before it is drawn on, and what
\* is drawn stays.
BarsShape ==
    /\ testPc \in {"mmap", "clear", "draw"} => panel \in Panels
    /\ testPc \in {"clear", "draw"} => DOMAIN memory = 0..panel.mem-1
    /\ testPc = "draw" => \A a \in DOMAIN memory : memory[a] = 0
    /\ Test!BarsFillTheScreen

\* The parts of FramebufferTest are those of FramebufferPixels.
LEMMA SamePixels ==
    ASSUME NEW p, NEW m
    PROVE  /\ Test!WellFormed(p) <=> Pixels!WellFormed(p)
           /\ Test!ShowsBars(p, m) <=> Pixels!ShowsBars(p, m)
           /\ Test!DrawColorBars(p, m) = Pixels!DrawColorBars(p, m)
           /\ Test!Unseen(p) = Pixels!Unseen(p)
<1>1. Test!WellFormed(p) <=> Pixels!WellFormed(p)
  BY DEF Test!WellFormed, Pixels!WellFormed
<1>2. Test!ShowsBars(p, m) <=> Pixels!ShowsBars(p, m)
  BY DEF Test!ShowsBars, Pixels!ShowsBars, Test!Visible, Pixels!Visible, Test!Bars,
         Pixels!Bars, Test!Covers, Pixels!Covers, Test!ScanOut, Pixels!ScanOut,
         Test!Field, Pixels!Field
<1>3. Test!DrawColorBars(p, m) = Pixels!DrawColorBars(p, m)
  BY DEF Test!DrawColorBars, Pixels!DrawColorBars, Test!DrawAll, Pixels!DrawAll,
         Test!Owners, Pixels!Owners, Test!Visible, Pixels!Visible, Test!Bars, Pixels!Bars,
         Test!Byte, Pixels!Byte, Test!PackColor, Pixels!PackColor, Test!InField,
         Pixels!InField, Test!ScaleColor, Pixels!ScaleColor, Test!Address, Pixels!Address
<1>4. Test!Unseen(p) = Pixels!Unseen(p)
  BY DEF Test!Unseen, Pixels!Unseen
<1>5. QED
  BY <1>1, <1>2, <1>3, <1>4

\* Drawing on a cleared mapping shows the bars, and nothing beside them.
LEMMA ClearedThenDrawn ==
    ASSUME UsualScreens, NEW p \in Panels, p.bytes \in {2, 4},
           NEW m, DOMAIN m = 0..p.mem-1, \A a \in DOMAIN m : m[a] = 0
    PROVE  /\ Test!ShowsBars(p, Test!DrawColorBars(p, m))
           /\ \A a \in Test!Unseen(p) : Test!DrawColorBars(p, m)[a] = 0
<1>1. Pixels!WellFormed(p)
  BY DevicesAssumption, SamePixels
<1>2. Pixels!IsRgb565(p) \/ Pixels!IsRgb888(p)
  BY DEF UsualScreens
<1>3. Test!DrawColorBars(p, m) = Pixels!DrawColorBars(p, m)
  BY SamePixels
<1>4. Test!ShowsBars(p, Test!DrawColorBars(p, m))
  <2>1. Pixels!ShowsBars(p, Pixels!DrawColorBars(p, m))
    BY <1>1, <1>2, Pixels!BarsAreShown
  <2> DEFINE drawing == Pixels!DrawColorBars(p, m)
  <2> HIDE DEF drawing
  <2>2. Test!ShowsBars(p, drawing) <=> Pixels!ShowsBars(p, drawing)
    BY SamePixels
  <2>3. QED
    BY <1>3, <2>1, <2>2 DEF drawing
<1>5. \A a \in Test!Unseen(p) : Test!DrawColorBars(p, m)[a] = 0
  <2>1. Pixels!Cleared(p, m)
    BY DEF Pixels!Cleared
  <2>2. Pixels!BlackOutside(p, Pixels!DrawColorBars(p, m))
    BY <1>1, <2>1, Pixels!BlackBesideTheBars
  <2>3. Test!Unseen(p) = Pixels!Unseen(p)
    BY SamePixels
  <2>4. QED
    BY <1>3, <2>2, <2>3 DEF Pixels!BlackOutside
<1>6. QED
  BY <1>4, <1>5

\* A step of the test pattern.
LEMMA BarsStep ==
    ASSUME UsualScreens, TestShape, BarsShape, Test!Next PROVE BarsShape'
<1> USE DEF BarsShape
<1>1. CASE Test!Calloc
  BY <1>1 DEF Test!Calloc, Test!Acquire, TestShape, Test!BarsFillTheScreen
<1>2. CASE Test!OpenDevice
  BY <1>2 DEF Test!OpenDevice, Test!Acquire, TestShape, Test!BarsFillTheScreen
<1>3. CASE Test!ReadInfo
  BY <1>3 DEF Test!ReadInfo, TestShape, Test!BarsFillTheScreen
<1>4. CASE Test!Mmap
  BY <1>4 DEF Test!Mmap, Test!Acquire, TestShape, Test!BarsFillTheScreen
<1>5. CASE Test!OpenFails
  BY <1>5 DEF Test!OpenFails, TestShape, Test!BarsFillTheScreen
<1>6. CASE Test!Clear
  BY <1>6 DEF Test!Clear, TestShape, Test!BarsFillTheScreen
<1>7. CASE Test!DrawBars
  <2>1. testPc = "draw" /\ testPc' = "close" /\ panel' = panel
    BY <1>7 DEF Test!DrawBars
  <2>2. /\ drawn' = (panel.bytes \in {2, 4})
        /\ drawn' => memory' = Test!DrawColorBars(panel, memory)
    BY <1>7 DEF Test!DrawBars
  <2>3. ASSUME drawn'
        PROVE  /\ Test!ShowsBars(panel', memory')
               /\ \A a \in Test!Unseen(panel') : memory'[a] = 0
    <3>1. /\ panel \in Panels /\ panel.bytes \in {2, 4}
          /\ DOMAIN memory = 0..panel.mem-1 /\ \A a \in DOMAIN memory : memory[a] = 0
      BY <2>1, <2>2, <2>3
    <3>2. memory' = Test!DrawColorBars(panel, memory)
      BY <2>2, <2>3
    <3>3. QED
      BY <2>1, <3>1, <3>2, ClearedThenDrawn
  <2>4. Test!BarsFillTheScreen'
    BY <2>3 DEF Test!BarsFillTheScreen
  <2>5. QED
    BY <2>1, <2>4
<1>8. CASE Test!CloseDisplay
  <2>1. /\ testPc' = "done" /\ UNCHANGED <<panel, memory, drawn>>
    BY <1>8 DEF Test!CloseDisplay
  <2>2. Test!BarsFillTheScreen'
    BY <2>1 DEF Test!BarsFillTheScreen
  <2>3. QED
    BY <2>1, <2>2
<1>9. QED
  BY <1>1, <1>2, <1>3, <1>4, <1>5, <1>6, <1>7, <1>8 DEF Test!Next

(***************************************************************************)
(* On every display of the usual formats, whatever its size, its offsets   *)
(* and the spare bytes of its lines, and whatever ran before, a test       *)
(* pattern that is said to be written is on the screen, and nothing else   *)
(* is in the mapping.                                                      *)
(***************************************************************************)
THEOREM BarsAreSeen ==
    ASSUME UsualScreens PROVE ProgramSpec => []TestPatternIsSeen
<1>1. ProgramInit => BarsShape
  BY DEF ProgramInit, Test!Init, BarsShape, Test!BarsFillTheScreen
<1>2. ASSUME PInv, BarsShape, [ProgramNext]_programVars PROVE BarsShape'
  <2>1. CASE DrawTest
    BY <1>2, <2>1, BarsStep DEF DrawTest, PInv
  <2>2. CASE UNCHANGED testVars
    BY <1>2, <2>2 DEF BarsShape, Test!BarsFillTheScreen, testVars
  <2>3. DrawTest \/ UNCHANGED testVars
    BY <1>2 DEF ProgramNext, ProgramStep, ReadOption, ParseReturns, ListReturns, List, TestReturns,
                CaptureReturns, CallDecoder, DecodeStep, DecoderReturns, InCapture, Ended,
                programVars
  <2>4. QED
    BY <2>1, <2>2, <2>3
<1>3. BarsShape => TestPatternIsSeen
  BY DEF BarsShape, TestPatternIsSeen
<1>4. QED
  BY <1>1, <1>2, <1>3, ProcessInvariance, PTL DEF ProgramSpec

-----------------------------------------------------------------------------
(* The command line                                                        *)

\* The options the loop has taken.
Taken == { options[i] : i \in 1..optind }

\* A value is the argument of an option of that name, or the default.
Took(opts, name, value, default) ==
    \/ \E o \in opts : o.name = name /\ o.arg = value
    \/ value = default /\ ~Given(opts, name)

\* The configuration is what the options have asked for so far.
GatheredValues(c, opts) ==
    /\ Took(opts, "w", c.w, Defaults.w) /\ Took(opts, "h", c.h, Defaults.h)
    /\ Took(opts, "r", c.r, Defaults.r) /\ Took(opts, "n", c.n, Defaults.n)
    /\ Took(opts, "f", c.format, Defaults.format)
    /\ Took(opts, "motion-threshold", c.threshold, Defaults.threshold)
    /\ Took(opts, "fb-test", c.test, Defaults.test)

GatheredFlags(c, opts) ==
    /\ c.list <=> Given(opts, "L")
    /\ c.noSave <=> Given(opts, "no-save")
    /\ c.saveFrames <=> Given(opts, "save-frames")
    /\ c.http <=> Given(opts, "http-mjpeg")
    /\ c.preview <=> Given(opts, "fb-preview")
    /\ c.detect <=> Given(opts, "motion-detect") \/ Given(opts, "motion-dir")
    /\ c.snapshots <=> Given(opts, "motion-dir")

\* While the loop goes on no option has ended it; after that, one has.
Gathered ==
    stage = "parse" =>
        /\ config.result = "run" =>
              /\ GatheredValues(config, Taken) /\ GatheredFlags(config, Taken)
              /\ \A o \in Taken : ~Ends(o)
        /\ config.result # "run" =>
              \E o \in Taken : Ends(o) /\ Verdict(o) = config.result

\* One option more.
LEMMA GivenMore ==
    ASSUME NEW opts, NEW o, NEW name
    PROVE  Given(opts \cup {o}, name) <=> Given(opts, name) \/ o.name = name
BY DEF Given

LEMMA TookMore ==
    ASSUME NEW opts, NEW o, NEW name, NEW value, NEW default
    PROVE  /\ o.name # name /\ Took(opts, name, value, default) =>
                 Took(opts \cup {o}, name, value, default)
           /\ o.name = name => Took(opts \cup {o}, name, o.arg, default)
BY DEF Took, Given

\* A turn of the loop.
LEMMA GatheringStep ==
    ASSUME ParseShape, Gathered, ReadOption PROVE Gathered'
<1> DEFINE o == options[optind + 1]
<1>1. /\ stage = "parse" /\ config.result = "run" /\ optind < Len(options)
      /\ config' = Effect(config, o) /\ optind' = optind + 1
      /\ options' = options /\ stage' = stage
  BY DEF ReadOption, Reading
<1>2. /\ options \in Seq(Options) /\ optind \in 0..Len(options)
      /\ config \in Configurations /\ Len(options) \in Nat
  BY <1>1 DEF ParseShape
<1>3. o \in Options
  BY <1>1, <1>2
<1>4. Taken' = Taken \cup {o}
  <2>1. 1..(optind + 1) = (1..optind) \cup {optind + 1}
    BY <1>2
  <2>2. QED
    BY <1>1, <2>1 DEF Taken
<1>5. /\ GatheredValues(config, Taken) /\ GatheredFlags(config, Taken)
      /\ \A p \in Taken : ~Ends(p)
  BY <1>1 DEF Gathered
<1> HIDE DEF o
<1>6. CASE Ends(o)
  <2>1. config'.result = Verdict(o) /\ Verdict(o) # "run"
    BY <1>1, <1>2, <1>6, EndIs DEF Verdict, Configurations
  <2>2. QED
    BY <1>4, <1>6, <2>1 DEF Gathered
<1>7. CASE ~Ends(o)
  <2> DEFINE c == config
             d == Effect(config, o)
  <2>1. /\ d.result = c.result
        /\ d.w = IF o.name = "w" THEN o.arg ELSE c.w
        /\ d.h = IF o.name = "h" THEN o.arg ELSE c.h
        /\ d.r = IF o.name = "r" THEN o.arg ELSE c.r
        /\ d.n = IF o.name = "n" THEN o.arg ELSE c.n
        /\ d.format = IF o.name = "f" THEN o.arg ELSE c.format
        /\ d.threshold = IF o.name = "motion-threshold" THEN o.arg ELSE c.threshold
        /\ d.test = IF o.name = "fb-test" THEN o.arg ELSE c.test
        /\ d.list <=> c.list \/ o.name = "L"
        /\ d.noSave <=> c.noSave \/ o.name = "no-save"
        /\ d.saveFrames <=> c.saveFrames \/ o.name = "save-frames"
        /\ d.http <=> c.http \/ o.name = "http-mjpeg"
        /\ d.preview <=> c.preview \/ o.name = "fb-preview"
        /\ d.detect <=> c.detect \/ o.name \in {"motion-detect", "motion-dir"}
        /\ d.snapshots <=> c.snapshots \/ o.name = "motion-dir"
    BY <1>2, <1>3, <1>7, EffectIs
  <2> HIDE DEF d
  <2>2. GatheredValues(d, Taken \cup {o})
    BY <1>5, <2>1, TookMore DEF GatheredValues
  <2>3. GatheredFlags(d, Taken \cup {o})
    <3>1. \A name : Given(Taken \cup {o}, name) <=> Given(Taken, name) \/ o.name = name
      BY GivenMore
    <3>2. /\ c.list <=> Given(Taken, "L")
          /\ c.noSave <=> Given(Taken, "no-save")
          /\ c.saveFrames <=> Given(Taken, "save-frames")
          /\ c.http <=> Given(Taken, "http-mjpeg")
          /\ c.preview <=> Given(Taken, "fb-preview")
          /\ c.detect <=> Given(Taken, "motion-detect") \/ Given(Taken, "motion-dir")
          /\ c.snapshots <=> Given(Taken, "motion-dir")
      BY <1>5 DEF GatheredFlags
    <3>3. QED
      BY <2>1, <3>1, <3>2 DEF GatheredFlags
  <2>4. config' = d /\ d.result = "run"
    BY <1>1, <2>1 DEF d
  <2>5. QED
    BY <1>4, <1>5, <1>7, <2>2, <2>3, <2>4 DEF Gathered
<1>8. QED
  BY <1>6, <1>7

LEMMA GatheredAtInit == ProgramInit => Gathered
<1> SUFFICES ASSUME ProgramInit PROVE Gathered
  OBVIOUS
<1>1. Taken = {} /\ config = Defaults
  BY DEF ProgramInit, Taken
<1>2. GatheredValues(Defaults, {})
  BY DEF GatheredValues, Took, Given
<1>3. GatheredFlags(Defaults, {})
  BY DEF GatheredFlags, Given, Defaults
<1>4. Defaults.result = "run"
  BY DEF Defaults
<1>5. QED
  BY <1>1, <1>2, <1>3, <1>4 DEF Gathered

LEMMA GatheredInvariance == ProgramSpec => []Gathered
<1>1. ASSUME PInv, Gathered, [ProgramNext]_programVars PROVE Gathered'
  <2>1. CASE ReadOption
    BY <1>1, <2>1, GatheringStep DEF PInv
  <2>2. CASE UNCHANGED <<parseVars, stage>>
    BY <1>1, <2>2 DEF Gathered, Taken, parseVars
  <2>3. CASE stage' # "parse"
    BY <2>3 DEF Gathered
  <2>4. CASE ParseReturns
    BY <2>3, <2>4, Chosen DEF ParseReturns
  <2>5. ReadOption \/ ParseReturns \/ UNCHANGED <<parseVars, stage>> \/ stage' # "parse"
    BY <1>1 DEF ProgramNext, ProgramStep, List, ListReturns, DrawTest, TestReturns,
                CaptureReturns, CallDecoder, DecodeStep, DecoderReturns, InCapture, Ended,
                programVars
  <2>6. QED
    BY <2>1, <2>2, <2>3, <2>4, <2>5
<1>2. QED
  BY <1>1, GatheredAtInit, ProcessInvariance, PTL DEF ProgramSpec

\* Where a name is given once, its argument is the value taken.
LEMMA TookIsArgument ==
    ASSUME NEW opts, NEW name, NEW value, NEW default, Took(opts, name, value, default),
           \A o, q \in opts : o.name = name /\ q.name = name => o = q
    PROVE  value = Argument(opts, name, default)
<1>1. CASE Given(opts, name)
  <2>1. PICK o \in opts : o.name = name /\ o.arg = value
    BY <1>1 DEF Took
  <2>2. (CHOOSE q \in opts : q.name = name) = o
    BY <2>1
  <2>3. QED
    BY <1>1, <2>1, <2>2 DEF Argument
<1>2. CASE ~Given(opts, name)
  BY <1>2 DEF Took, Given, Argument
<1>3. QED
  BY <1>1, <1>2

\* Where every name is given once, the configuration is the one asked for.
LEMMA GatheredIsAsked ==
    ASSUME NEW c \in Configurations, NEW opts, c.result = "run",
           GatheredValues(c, opts), GatheredFlags(c, opts),
           \A o, q \in opts : o.name = q.name => o = q
    PROVE  c = Asked(opts)
<1>1. /\ c.w = Argument(opts, "w", Defaults.w) /\ c.h = Argument(opts, "h", Defaults.h)
      /\ c.r = Argument(opts, "r", Defaults.r) /\ c.n = Argument(opts, "n", Defaults.n)
  BY TookIsArgument DEF GatheredValues
<1>2. /\ c.format = Argument(opts, "f", Defaults.format)
      /\ c.threshold = Argument(opts, "motion-threshold", Defaults.threshold)
      /\ c.test = Argument(opts, "fb-test", Defaults.test)
  BY TookIsArgument DEF GatheredValues
<1>3. /\ c.list = Given(opts, "L") /\ c.noSave = Given(opts, "no-save")
      /\ c.saveFrames = Given(opts, "save-frames") /\ c.http = Given(opts, "http-mjpeg")
      /\ c.preview = Given(opts, "fb-preview")
      /\ c.detect = (Given(opts, "motion-detect") \/ Given(opts, "motion-dir"))
      /\ c.snapshots = Given(opts, "motion-dir")
  BY DEF GatheredFlags, Given, Configurations
<1>4. c = [result |-> c.result, w |-> c.w, h |-> c.h, r |-> c.r, n |-> c.n,
           format |-> c.format, threshold |-> c.threshold, test |-> c.test,
           list |-> c.list, noSave |-> c.noSave, saveFrames |-> c.saveFrames,
           http |-> c.http, preview |-> c.preview, detect |-> c.detect,
           snapshots |-> c.snapshots]
  BY DEF Configurations
<1>5. QED
  BY <1>1, <1>2, <1>3, <1>4 DEF Asked

(***************************************************************************)
(* No command line is ambiguous, of any length and with any arguments: the *)
(* order of options given once each does not matter, each has the effect   *)
(* the usage text gives it, and no choice of what to capture is dropped in *)
(* silence, however often options are repeated.                            *)
(***************************************************************************)
THEOREM CommandLineIsHeard == ProgramSpec => []NoAmbiguousCommandLine
<1>1. ASSUME ParseShape, Gathered, stage = "parse", ~Reading
      PROVE  Unambiguous(options, Checked(config))
  <2> DEFINE opts == { options[i] : i \in DOMAIN options }
             c == Checked(config)
  <2>1. /\ options \in Seq(Options) /\ optind \in 0..Len(options)
        /\ config \in Configurations /\ DOMAIN options = 1..Len(options)
        /\ Len(options) \in Nat
    BY <1>1 DEF ParseShape
  <2>2. Taken \subseteq opts
    BY <2>1 DEF Taken
  <2>3. config.result = "run" => Taken = opts
    BY <1>1, <2>1 DEF Taken, Reading
  <2>4. ASSUME Plain(options) PROVE Outcome(c) = Meaning(opts)
    <3>1. \A o, q \in opts : o.name = q.name => o = q
      BY <2>4 DEF Plain
    <3>2. \A o, q \in opts : Ends(o) /\ Ends(q) => o = q
      BY <2>4 DEF Plain
    <3>3. CASE config.result = "run"
      <4>1. config = Asked(opts)
        BY <1>1, <2>1, <2>3, <3>1, <3>3, GatheredIsAsked DEF Gathered
      <4>2. \A o \in opts : ~Ends(o)
        BY <1>1, <2>3, <3>3 DEF Gathered
      <4>3. QED
        BY <4>1, <4>2 DEF Meaning
    <3>4. CASE config.result # "run"
      <4>1. PICK o \in opts : Ends(o) /\ Verdict(o) = config.result
        BY <1>1, <2>2, <3>4 DEF Gathered
      <4>2. (CHOOSE q \in opts : Ends(q)) = o
        BY <3>2, <4>1
      <4>3. c = config
        BY <3>4 DEF Checked
      <4>4. QED
        BY <3>4, <4>1, <4>2, <4>3 DEF Meaning, Outcome
    <3>5. QED
      BY <3>3, <3>4
  <2>5. ASSUME Selected(c) = "capture"
        PROVE  /\ Given(opts, "no-save") => ModeOf(c) = "nosave"
               /\ Given(opts, "save-frames") => ModeOf(c) = "frames"
               /\ Given(opts, "http-mjpeg") => ModeOf(c) = "http"
               /\ Given(opts, "fb-preview") => ModeOf(c) \in {"preview", "http"}
               /\ Given(opts, "motion-detect") => c.detect
               /\ Given(opts, "motion-dir") => c.snapshots
               /\ c.detect => ModeOf(c) = "http" /\ c.format = "MJPG"
    <3>1. config.result = "run" /\ Acceptable(config) /\ c = config
      BY <2>1, <2>5, CheckedTyped
    <3>2. GatheredFlags(config, opts)
      BY <1>1, <2>3, <3>1 DEF Gathered
    <3> HIDE DEF opts, c
    <3>3. /\ ~(c.noSave /\ c.saveFrames)
          /\ ~(c.http /\ (c.noSave \/ c.saveFrames))
          /\ ~(c.preview /\ (c.noSave \/ c.saveFrames))
          /\ c.detect => c.format = "MJPG" /\ c.http
      BY <3>1 DEF Acceptable
    <3>4. /\ c.http => ModeOf(c) = "http"
          /\ ~c.http /\ c.preview => ModeOf(c) = "preview"
          /\ ~c.http /\ ~c.preview /\ c.saveFrames => ModeOf(c) = "frames"
          /\ ~c.http /\ ~c.preview /\ ~c.saveFrames /\ c.noSave => ModeOf(c) = "nosave"
      BY DEF ModeOf
    <3>5. QED
      BY <3>1, <3>2, <3>3, <3>4 DEF GatheredFlags
  <2>6. QED
    BY <2>4, <2>5 DEF Unambiguous
<1>2. PInv /\ Gathered => NoAmbiguousCommandLine
  BY <1>1 DEF PInv, NoAmbiguousCommandLine
<1>3. QED
  BY <1>2, ProcessInvariance, GatheredInvariance, PTL
=============================================================================
