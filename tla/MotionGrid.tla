----------------------------- MODULE MotionGrid -----------------------------
(***************************************************************************)
(* The picture arithmetic of the motion detection in v4l2_capture.c: luma  *)
(* of an RGB565 pixel, the grid of blocks over a picture, the blocks that  *)
(* changed between two pictures, their bounding box and the red mask.      *)
(*                                                                         *)
(* A picture is a record: width w, height h and the pixels px, a function  *)
(* from the index y*w + x to an RGB565 value.  The program has a grid of   *)
(* MOTION_GRID_COLS = 64 by MOTION_GRID_ROWS = 48 blocks and samples every *)
(* MOTION_SAMPLE_STEP = 4th pixel of every 4th line.                       *)
(***************************************************************************)
EXTENDS Naturals, FiniteSetsExt

CONSTANTS
    Cols, Rows,   \* MOTION_GRID_COLS, MOTION_GRID_ROWS
    Step,         \* MOTION_SAMPLE_STEP
    Threshold     \* config.motion_threshold

ASSUME GridAssumption ==
    /\ Cols \in Nat \ {0} /\ Rows \in Nat \ {0} /\ Step \in Nat \ {0}
    /\ Threshold \in Nat \ {0}     \* parse_args rejects anything else

\* The blocks, by row and column.
Blocks == (0..Rows-1) \X (0..Cols-1)

-----------------------------------------------------------------------------
(* Pixels                                                                  *)

Red(p) == (((p \div 2048) % 32) * 255) \div 31
Green(p) == (((p \div 32) % 64) * 255) \div 63
Blue(p) == ((p % 32) * 255) \div 31

\* rgb565_luma
Luma(p) == (Red(p) * 77 + Green(p) * 150 + Blue(p) * 29) \div 256

\* red_tint_rgb565
RedTint(p) ==
    LET r == (Red(p) + 255) \div 2
        g == Green(p) \div 3
        b == Blue(p) \div 3
    IN  ((r * 31) \div 255) * 2048 + ((g * 63) \div 255) * 32 + (b * 31) \div 255

-----------------------------------------------------------------------------
(* The blocks of a picture.  Two roundings divide a line of len pixels     *)
(* into n blocks: a sample at x belongs to block SampleBlock(x), and the   *)
(* mask and the box give block k the pixels from Edge(k) to Edge(k+1) - 1. *)

Edge(k, n, len) == (k * len) \div n

SampleBlock(x, n, len) ==
    LET k == (x * n) \div len IN IF k >= n THEN n - 1 ELSE k

Tile(k, n, len) == { x \in 0..len-1 : Edge(k, n, len) <= x /\ x < Edge(k + 1, n, len) }

\* The sampled pixels that count for a block, as <<x, y>>.
Samples(pic, b) ==
    { s \in { x \in 0..pic.w-1 : x % Step = 0 }
            \X { y \in 0..pic.h-1 : y % Step = 0 } :
        /\ SampleBlock(s[1], Cols, pic.w) = b[2]
        /\ SampleBlock(s[2], Rows, pic.h) = b[1] }

Index(pic, s) == s[2] * pic.w + s[1]

\* Change of luma at a sample between the pixels of two frames of one size.
SampleDelta(old, pic, s) ==
    LET a == Luma(old[Index(pic, s)])
        c == Luma(pic.px[Index(pic, s)])
    IN  IF c > a THEN c - a ELSE a - c

\* A block's mean change; a block without samples has none.
BlockDelta(old, pic, b) ==
    LET S == Samples(pic, b)
        Delta(s) == SampleDelta(old, pic, s)
    IN  IF S = {} THEN 0 ELSE MapThenSumSet(Delta, S) \div Cardinality(S)

\* active_blocks: where the picture moved since the frame with pixels old.
ActiveBlocks(old, pic) ==
    { b \in Blocks : BlockDelta(old, pic, b) >= Threshold }

\* Pixels, by index, that draw_rgb565_motion_mask colours.
Mask(pic, blocks) ==
    UNION { { Index(pic, s) : s \in Tile(b[2], Cols, pic.w)
                                    \X Tile(b[1], Rows, pic.h) } : b \in blocks }

Tinted(pic, blocks) ==
    [pic EXCEPT !.px =
        [i \in DOMAIN pic.px |->
            IF i \in Mask(pic, blocks) THEN RedTint(pic.px[i]) ELSE pic.px[i]]]

\* Mutant of Box: the last block is left out of the width and height.
BoxExclusive(w, h, blocks) ==
    LET cols == { b[2] : b \in blocks }
        rows == { b[1] : b \in blocks }
        x == Edge(Min(cols), Cols, w)
        y == Edge(Min(rows), Rows, h)
    IN  [x |-> x, y |-> y, w |-> Edge(Max(cols), Cols, w) - x,
         h |-> Edge(Max(rows), Rows, h) - y]

\* motion_box_x, _y, _w and _h; meant only if some block is active.
Box(w, h, blocks) ==
    LET cols == { b[2] : b \in blocks }
        rows == { b[1] : b \in blocks }
        x == Edge(Min(cols), Cols, w)
        y == Edge(Min(rows), Rows, h)
    IN  [x |-> x, y |-> y, w |-> Edge(Max(cols) + 1, Cols, w) - x,
         h |-> Edge(Max(rows) + 1, Rows, h) - y]
=============================================================================
