-------------------------- MODULE MCMotionPipeline --------------------------
(***************************************************************************)
(* TLC instances of MotionPipeline: pictures of black pixels with a few    *)
(* white or dim ones.                                                      *)
(***************************************************************************)
EXTENDS MotionPipeline

White == 65535
Dim == 32       \* luma 2: a change below the threshold
Violet == 12345 \* luma 40, no channel at its limit

Picture(w, h, lit, level) ==
    [w |-> w, h |-> h,
     px |-> [i \in 0..w*h-1 |-> IF i \in lit THEN level ELSE 0]]

\* Two sizes; with two rows and a step of two, the lower blocks of the first
\* size have no sample.  The sizes of 5 are no multiples of the grid.
SmallPictures ==
    { Picture(4, 2, {}, White), Picture(4, 2, {0}, White),
      Picture(4, 2, {2}, White), Picture(4, 2, {0}, Dim),
      Picture(5, 3, {}, White), Picture(5, 3, {0, 14}, Violet) }

\* One column of 25 pixels in two blocks, as 600 lines in 48: the sample at
\* line 12 moves.
TallPictures == { Picture(1, 25, {}, White), Picture(1, 25, {12}, White) }

\* A screen of 3 x 2 in a mapping of 4 x 3, with 16 bits for a pixel, and one
\* of 5 x 4 with 32.
Rgb565 ==
    [xres |-> 3, yres |-> 2, xoff |-> 1, yoff |-> 1, line |-> 9, mem |-> 28,
     bytes |-> 2,
     red |-> [offset |-> 11, length |-> 5], green |-> [offset |-> 5, length |-> 6],
     blue |-> [offset |-> 0, length |-> 5], transp |-> [offset |-> 0, length |-> 0]]

Argb ==
    [xres |-> 5, yres |-> 4, xoff |-> 0, yoff |-> 0, line |-> 20, mem |-> 80,
     bytes |-> 4,
     red |-> [offset |-> 16, length |-> 8], green |-> [offset |-> 8, length |-> 8],
     blue |-> [offset |-> 0, length |-> 8], transp |-> [offset |-> 24, length |-> 6]]

MCPanels == {Rgb565, Argb}
=============================================================================
