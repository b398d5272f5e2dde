----------------------------- MODULE MCProgram -----------------------------
(***************************************************************************)
(* The TLC instance of Program: every way to give up to three of the       *)
(* options below in any order, one of them twice, and the longer command   *)
(* lines of a service with motion detection; a few cameras; any number of  *)
(* buffers the driver may grant that fits the array of the program.        *)
(***************************************************************************)
EXTENDS Program, Functions

Option(name) == [name |-> name]
OptionOf(name, arg) == [name |-> name, arg |-> arg]

ServiceOptions ==
    { OptionOf("f", "MJPG"), OptionOf("http-mjpeg", TRUE), Option("motion-detect"),
      Option("motion-dir"), Option("fb-preview"), OptionOf("n", 1),
      OptionOf("motion-threshold", 0) }

MCOptions ==
    ServiceOptions \cup
    { OptionOf("f", "bad"), OptionOf("n", 0), OptionOf("n", -1), OptionOf("w", 0),
      Option("no-save"), Option("save-frames"), OptionOf("http-mjpeg", FALSE),
      OptionOf("fb-test", TRUE), OptionOf("fb-test", FALSE), Option("L"),
      Option("help"), Option("unknown") }

Distinct(from, length) ==
    { s \in [1..length -> from] : IsInjective(s) }

MCCommandLines ==
    UNION { Distinct(MCOptions, length) : length \in 0..3 }
        \cup [1..2 -> MCOptions] \cup Distinct(ServiceOptions, 4)

\* Sizes with no interval, two of them, a range of them, one that is no rate, one
\* of an unknown type, a range of sizes and a size of an unknown type.
Small == [type |-> "discrete", intervals |-> <<>>]
Large == [type |-> "discrete", intervals |-> <<"discrete", "discrete">>]
Ranged == [type |-> "discrete", intervals |-> <<"discrete", "range", "discrete">>]
Gaps == [type |-> "discrete", intervals |-> <<"norate", "discrete">>]
Cut == [type |-> "discrete", intervals |-> <<"discrete", "unknown", "discrete">>]
AnySize == [type |-> "range", intervals |-> <<>>]
Odd == [type |-> "unknown", intervals |-> <<"discrete">>]

MCCameras ==
    { <<>>, << <<>>, <<Small>> >>, << <<Large, Ranged>>, <<Odd, Large>> >>,
      << <<Small, AnySize, Large>>, <<Large>> >>, << <<Cut, Gaps>>, <<Gaps>> >> }

\* Screens of 9 x 2, where the bars are not all of one width, of 3 x 1 and of
\* 8 x 1 with 16, 32 and 24 bits for a pixel; the first is a part of a larger
\* mapping, and comes with the colours in the other order too.
Rgb565 ==
    [xres |-> 9, yres |-> 2, xoff |-> 2, yoff |-> 1, line |-> 23, mem |-> 95,
     bytes |-> 2,
     red |-> [offset |-> 11, length |-> 5], green |-> [offset |-> 5, length |-> 6],
     blue |-> [offset |-> 0, length |-> 5], transp |-> [offset |-> 0, length |-> 0]]

Argb ==
    [xres |-> 3, yres |-> 1, xoff |-> 0, yoff |-> 0, line |-> 12, mem |-> 12,
     bytes |-> 4,
     red |-> [offset |-> 16, length |-> 8], green |-> [offset |-> 8, length |-> 8],
     blue |-> [offset |-> 0, length |-> 8], transp |-> [offset |-> 24, length |-> 6]]

Abgr1555 ==
    [Rgb565 EXCEPT !.red = [offset |-> 0, length |-> 5],
                   !.green = [offset |-> 5, length |-> 5],
                   !.blue = [offset |-> 10, length |-> 5],
                   !.transp = [offset |-> 15, length |-> 1]]

\* A whole picture and two that are cut short.
MCJpegs == { [height |-> 2, lines |-> l] : l \in 0..2 }

MCPanels ==
    { Rgb565, Abgr1555, Argb,
      [Argb EXCEPT !.xres = 8, !.line = 24, !.mem = 24, !.bytes = 3] }
=============================================================================
