------------------------------- MODULE Program -------------------------------
(***************************************************************************)
(* The process, from argv to its exit status: main() parses the command    *)
(* line (CommandLine) and then does one thing: print the usage, list the   *)
(* formats of the camera (FormatListing), draw the framebuffer's test      *)
(* pattern (FramebufferTest) or capture (CaptureDevice).                   *)
(*                                                                         *)
(* The state of the capture is that of CaptureDevice, which this module    *)
(* extends; the other two parts, and the decoder a preview of JPEGs calls  *)
(* for every frame (JpegDecoder), are instances with variables of their    *)
(* own.  What belongs to parse_args is dropped when it has returned.       *)
(***************************************************************************)
EXTENDS CaptureDevice, CommandLine

CONSTANTS
    CommandLines,  \* the sequences of options the program is started with
    Cameras,       \* as in FormatListing
    Panels,        \* as in FramebufferTest
    Jpegs          \* as in JpegDecoder

\* The options: what is told apart of an argument is its type.
Options ==
    [name : {"w", "h", "r", "motion-threshold"}, arg : Int]
        \cup [name : {"n"}, arg : FrameCounts \cup (Int \ Nat)]
        \cup [name : {"f"}, arg : Formats \cup {"bad"}]
        \cup [name : {"http-mjpeg", "fb-test"}, arg : BOOLEAN]
        \cup [name : {"L", "no-save", "save-frames", "fb-preview", "motion-detect",
                      "motion-dir", "help", "unknown"}]

ASSUME ProgramAssumption ==
    /\ DefaultCount \in FrameCounts
    /\ CommandLines \subseteq Seq(Options)

VARIABLES
    options,   \* argv
    optind,    \* how many options getopt_long has returned
    config,    \* what they have made of the defaults
    stage,     \* what main is doing
    success,   \* EXIT_SUCCESS
    \* camera_list_formats
    camera, listPc, listFd, fmt, size, interval, printed, disturbed, listed,
    \* framebuffer_test_pattern
    testPc, panel, memory, holds, drawn,
    \* jpeg_decode_to_rgb565
    jpegPc, jpeg, heap, pixels, picture, out

parseVars == <<options, optind, config>>
listVars == <<camera, listPc, listFd, fmt, size, interval, printed, disturbed,
              listed>>
testVars == <<testPc, panel, memory, holds, drawn>>
jpegVars == <<jpegPc, jpeg, heap, pixels, picture, out>>
programVars == <<parseVars, stage, success, listVars, testVars, jpegVars, vars>>

Listing == INSTANCE FormatListing WITH pc <- listPc, opened <- listFd
Test == INSTANCE FramebufferTest WITH pc <- testPc
Decoder == INSTANCE JpegDecoder WITH pc <- jpegPc

\* What the devices may offer and deliver.
ASSUME DevicesAssumption ==
    /\ Cameras \subseteq
          Seq(Seq([type : Listing!SizeTypes, intervals : Seq(Listing!IntervalTypes)]))
    /\ \A p \in Panels : p.bytes \in {2, 4} => Test!WellFormed(p)
    /\ Jpegs \subseteq [height : Nat \ {0}, lines : Nat]

ProgramInit ==
    /\ Init /\ mode = "file" /\ wanted = DefaultCount /\ format = "YUYV"
    /\ options \in CommandLines /\ optind = 0 /\ config = Defaults
    /\ stage = "parse" /\ success = FALSE
    /\ Listing!Init
    /\ Test!Init
    /\ Decoder!Init

-----------------------------------------------------------------------------

Reading == stage = "parse" /\ config.result = "run" /\ optind < Len(options)

\* Mutant of ReadOption: motion_save is set anew by every option.
ReadOptionAnew ==
    /\ Reading
    /\ LET o == options[optind + 1]
       IN  config' = [Effect(config, o) EXCEPT !.snapshots = (o.name = "motion-dir")]
    /\ optind' = optind + 1
    /\ UNCHANGED <<options, stage, success, listVars, testVars, jpegVars, vars>>

\* getopt_long returns the next option; a return in the switch ends the loop.
ReadOption ==
    /\ Reading
    /\ config' = Effect(config, options[optind + 1])
    /\ optind' = optind + 1
    /\ UNCHANGED <<options, stage, success, listVars, testVars, jpegVars, vars>>

\* The rest of parse_args, and the choice main makes.  --help succeeds.
ParseReturns ==
    LET c == Checked(config)
    IN  /\ stage = "parse" /\ ~Reading
        /\ stage' = Selected(c)
        /\ success' = (c.result = "help")
        /\ options' = <<>> /\ optind' = 0 /\ config' = Defaults
        /\ IF Selected(c) = "capture"
           THEN mode' = ModeOf(c) /\ wanted' = c.n /\ format' = c.format
           ELSE UNCHANGED <<mode, wanted, format>>
        /\ UNCHANGED <<listVars, testVars, jpegVars, device, granted, mapped, index,
                       driverVars, loopVars, outVars, pc, status>>

\* One step of the function main called.
List ==
    /\ stage = "list" /\ Listing!Next
    /\ UNCHANGED <<parseVars, stage, success, testVars, jpegVars, vars>>

DrawTest ==
    /\ stage = "test" /\ Test!Next
    /\ UNCHANGED <<parseVars, stage, success, listVars, jpegVars, vars>>

\* A frame of a preview that has to be decoded before it is shown.
Compressed ==
    pc = "handle" /\ mode = "preview" /\ format = "MJPG" /\ ~Skipped

InCapture(A) ==
    /\ stage = "capture" /\ pc # "exit" /\ ~Compressed /\ A
    /\ UNCHANGED <<parseVars, stage, success, listVars, testVars, jpegVars>>

\* jpeg_decode_to_rgb565 for the frame in hand.
CallDecoder ==
    /\ stage = "capture" /\ Compressed
    /\ Decoder!Call
    /\ stage' = "decode"
    /\ UNCHANGED <<parseVars, success, listVars, testVars, vars>>

DecodeStep ==
    /\ stage = "decode" /\ Decoder!Next
    /\ UNCHANGED <<parseVars, stage, success, listVars, testVars, vars>>

\* It returns: the picture is drawn, or not, and freed.
DecoderReturns ==
    /\ stage = "decode" /\ Decoder!Free
    /\ StoreFails \/ (out /\ Store)
    /\ stage' = "capture"
    /\ UNCHANGED <<parseVars, success, listVars, testVars>>

\* Mutant of ListReturns: what camera_list_formats returns is not looked at.
ListReturnsSuccess ==
    /\ stage = "list" /\ listPc = "done"
    /\ success' = TRUE /\ stage' = "exit"
    /\ UNCHANGED <<parseVars, listVars, testVars, jpegVars, vars>>

\* The function returns, and main with it.
ListReturns ==
    /\ stage = "list" /\ listPc = "done"
    /\ success' = listed /\ stage' = "exit"
    /\ UNCHANGED <<parseVars, listVars, testVars, jpegVars, vars>>

TestReturns ==
    /\ stage = "test" /\ testPc = "done"
    /\ success' = drawn /\ stage' = "exit"
    /\ UNCHANGED <<parseVars, listVars, testVars, jpegVars, vars>>

CaptureReturns ==
    /\ stage = "capture" /\ pc = "exit"
    /\ success' = status /\ stage' = "exit"
    /\ UNCHANGED <<parseVars, listVars, testVars, jpegVars, vars>>

Ended == stage = "exit" /\ UNCHANGED programVars

\* The program's own steps.
ProgramStep ==
    \/ ReadOption \/ ParseReturns
    \/ List \/ ListReturns
    \/ DrawTest \/ TestReturns
    \/ InCapture(Step) \/ CaptureReturns
    \/ CallDecoder \/ DecodeStep \/ DecoderReturns

ProgramNext ==
    \/ ProgramStep
    \/ InCapture(Serve)
    \/ \E s \in Sizes : InCapture(Dequeue(s))
    \/ InCapture(Timeout) \/ InCapture(CameraFails)
    \/ Ended

ProgramSpec == ProgramInit /\ [][ProgramNext]_programVars

(***************************************************************************)
(* Fairness.  The program goes on: its own steps are calls that return.    *)
(* The camera, however often it times out or hands out empty buffers,      *)
(* again and again delivers a whole frame.  Nothing is assumed of the HTTP *)
(* service, which may wait for its peers for ever.                         *)
(***************************************************************************)
FairProgramSpec ==
    /\ ProgramSpec
    /\ WF_programVars(ProgramStep)
    /\ SF_programVars(InCapture(Dequeue(2)))

-----------------------------------------------------------------------------
(* Properties                                                              *)

\* What parse_args returns is what the command line means (CommandLine).
NoAmbiguousCommandLine ==
    stage = "parse" /\ ~Reading => Unambiguous(options, Checked(config))

\* A listing is complete and in order (FormatListing).
ListsWhatTheCameraOffers == Listing!PrintsWhatTheCameraOffers

\* A decoder gives a whole picture or nothing (JpegDecoder).
DecodesWholePictures == Decoder!WholePictureOrNothing

\* A test pattern that is said to be written is seen (FramebufferTest).
TestPatternIsSeen == Test!BarsFillTheScreen

(***************************************************************************)
(* Whatever was asked for and whatever failed, the process ends with       *)
(* everything given back: the descriptor of a listing, which returns from  *)
(* four places after its open, the display's structure, descriptor and     *)
(* mapping, the capture's buffers, device, file and display, and the       *)
(* pictures of a preview.                                                  *)
(***************************************************************************)
NothingLeftBehindAtExit ==
    stage = "exit" =>
        /\ mapped = {} /\ ~device /\ ~streaming /\ open = {}
        /\ ~listFd
        /\ holds = {} /\ heap = {}

(***************************************************************************)
(* The exit status is honest.  Of help, listing, test pattern and capture  *)
(* at most one has run.  If the status is success, what has run did all it *)
(* was asked for: a format was listed, the bars were drawn, every frame    *)
(* wanted is stored and counted.  If it is failure, no format was listed   *)
(* and no bars were drawn.                                                 *)
(***************************************************************************)
Ran(part) ==
    CASE part = "list" -> listPc # "open"
      [] part = "test" -> testPc # "calloc"
      [] part = "capture" -> pc # "open"

ExitStatusIsHonest ==
    stage = "exit" =>
        /\ \A p, q \in {"list", "test", "capture"} : Ran(p) /\ Ran(q) => p = q
        /\ Ran("list") => success = (printed # <<>>)
        /\ Ran("test") => success = drawn
        /\ Ran("capture") /\ success => status /\ SuccessIsComplete

(***************************************************************************)
(* The program ends, unless it was asked for a capture without a count or  *)
(* for the HTTP service, which waits for its viewers.                      *)
(***************************************************************************)
Endless == stage \in {"capture", "decode"} /\ (wanted = 0 \/ mode = "http")

ProgramEnds == stage # "parse" /\ ~Endless ~> stage = "exit"
=============================================================================
